---- MODULE Spec2Model ----
(***************************************************************************)
(* State-machine model of the marketplace contract in src/src/lib.rs:      *)
(* listings, auction bids, offers and the two-phase settlement             *)
(* (schedule nft_transfer_payout, then resolve_purchase / resolve_offer).  *)
(*                                                                         *)
(* Amounts are u128 yoctoNEAR in the source.  TLC's integers are 32 bit,   *)
(* so MAX_PRICE and STORAGE_ADD_MARKET_DATA are scaled down; every         *)
(* comparison and every fee computation is made exactly as in the source.  *)
(* A call that panics is rolled back by the host: it changes no contract   *)
(* state and none of the transfers it created is made.                     *)
(***************************************************************************)
EXTENDS Integers, Sequences, FiniteSets, TLC

(* ------------------------------ Option<T> ------------------------------ *)
None == <<>>
Some(x) == <<x>>
IsSome(o) == o # <<>>
Unwrap(o) == o[1]

(* ----------------------------- bounds ---------------------------------- *)
\* the storage an account deposits, in reservations
MaxStorageUnits == 2
\* the ledger time, in blocks
MaxTime == 3
\* settlements scheduled and not yet resolved
MaxPending == 1
\* the same in SpecRelist, where two purchases are pending together
MaxPendingRelist == 2

(* ------------------------- program constants --------------------------- *)
DELIMETER == "||"
NEAR == "near"
\* 1_000_000_000 * 10^24 in the source; scaled.
MAX_PRICE == 2000
\* 8590000000000000000000 in the source; scaled.
STORAGE_ADD_MARKET_DATA == 5
InitialTransactionFee == 200
FeeDenominator == 10000
PayoutTolerance == 100

(* --------------------------- input domains ----------------------------- *)
OWNER == "market"
TREASURY == "treasury"
NFT == "nft"
ROYALTY == "royalty"
Sellers == {"alice"}
Buyers == {"bob", "carol"}
Users == Sellers \cup Buyers
Callers == Users \cup {OWNER}
Tokens == {"t1"}
ApprovalIds == {1}
FtTokens == {NEAR, "usdt"}
Yocto == {0, 1}
\* a deposit that covers two reservations, and one below the minimum
StorageDeposits == {2 * STORAGE_ADD_MARKET_DATA, STORAGE_ADD_MARKET_DATA - 1}
\* listing prices: one below every bid, one at the maximum (rejected)
ListPrices == {100, MAX_PRICE}
UpdatePrices == {100, 1000}
AuctionFlags == {None, Some(TRUE)}
BidAmounts == {100, 150, 200}
BuyDeposits == {100, 1000}
OfferBuyers == {"bob"}
OfferPrices == {500, 1000}
\* the fee rates and treasuries an owner sets; 10000 is rejected
Fees == {0, 200, 5000, 9999, 10000}
Treasuries == {TREASURY, "alice"}
\* the accounts that call the owner-only methods, and the owners they name
Admins == {OWNER, "alice"}
\* settlement prices and the amounts a registry names in a payout
SettlePrices == {1, 100, 150, 1000}
PayoutRecipients == {"alice", ROYALTY}
PayoutAmounts == {10, 50, 950, 990}

(* ------------------------------- bags ---------------------------------- *)
\* The transfers one call makes: a bag of <<receiver, amount>>.
NoTransfers == <<>>
Transfer(receiver, amount) == <<receiver, amount>> :> 1
Plus(b1, b2) ==
  [e \in (DOMAIN b1) \cup (DOMAIN b2) |->
     (IF e \in DOMAIN b1 THEN b1[e] ELSE 0) + (IF e \in DOMAIN b2 THEN b2[e] ELSE 0)]
Count(b, e) == IF e \in DOMAIN b THEN b[e] ELSE 0
RECURSIVE BagSize(_)
BagSize(b) ==
  IF DOMAIN b = {} THEN 0
  ELSE LET e == CHOOSE x \in DOMAIN b : TRUE
       IN b[e] + BagSize([x \in (DOMAIN b) \ {e} |-> b[x]])
\* The sum of the amounts of a bag of transfers.
RECURSIVE BagTotal(_)
BagTotal(b) ==
  IF DOMAIN b = {} THEN 0
  ELSE LET e == CHOOSE x \in DOMAIN b : TRUE
       IN e[2] * b[e] + BagTotal([x \in (DOMAIN b) \ {e} |-> b[x]])
\* One refund per bid of a bid list.
RECURSIVE RefundBids(_)
RefundBids(bids) ==
  IF bids = <<>> THEN NoTransfers
  ELSE Plus(Transfer(bids[1].bidder_id, bids[1].price), RefundBids(Tail(bids)))

(* ------------------------------- keys ---------------------------------- *)
ContractAndTokenId(nft_contract_id, token_id) ==
  nft_contract_id \o DELIMETER \o token_id
make_triple(nft_contract_id, buyer_id, token) ==
  nft_contract_id \o DELIMETER \o buyer_id \o DELIMETER \o token

VARIABLES
  owner_id, treasury_id, transaction_fee,
  market, offers, by_owner_id, storage_deposits, approved_nft_contract_ids,
  purchase_promises, offer_promises,
  now, transfers, last, settlements

config == <<owner_id, treasury_id, transaction_fee, approved_nft_contract_ids>>
stores == <<market, offers, by_owner_id>>
promises == <<purchase_promises, offer_promises>>
vars == <<owner_id, treasury_id, transaction_fee, market, offers, by_owner_id,
          storage_deposits, approved_nft_contract_ids, purchase_promises,
          offer_promises, now, transfers, last, settlements>>

(* ------------------------- the last call ------------------------------- *)
\* The registry's answer to nft_transfer_payout: the call failed, or it
\* returned bytes.  The bytes are a bare recipient -> amount object ("bare"),
\* the same object in the one-field envelope {"payout": ...} ("wrapped"), or
\* neither ("garbage").
Result(ok, shape, payout) == [ok |-> ok, shape |-> shape, payout |-> payout]
NoResult == Result(FALSE, "", <<>>)

\* op: the method; status: "ok" or "panic"; branch and result: how a resolve
\* ended and the registry's answer it was given.
Resolved(op, caller, token_id, account, amount, status, branch, result) ==
  [op |-> op, caller |-> caller, token_id |-> token_id, account |-> account,
   amount |-> amount, status |-> status, branch |-> branch, result |-> result]
Call(op, caller, token_id, account, amount, status, branch) ==
  Resolved(op, caller, token_id, account, amount, status, branch, NoResult)
Ok(op, caller, token_id, account, amount) ==
  Call(op, caller, token_id, account, amount, "ok", "")
Panicked(op) == Call(op, "", "", "", 0, "panic", "")
\* A panicking call: nothing is written, nothing is transferred.
Panic(op) ==
  /\ last' = Panicked(op)
  /\ transfers' = NoTransfers
  /\ UNCHANGED <<config, stores, storage_deposits, promises, now, settlements>>

(* ------------------------------ queries -------------------------------- *)
storage_minimum_balance == STORAGE_ADD_MARKET_DATA
storage_balance_of(account_id) ==
  IF account_id \in DOMAIN storage_deposits THEN storage_deposits[account_id] ELSE 0
get_supply_by_owner_id(account_id) ==
  IF account_id \in DOMAIN by_owner_id THEN Cardinality(by_owner_id[account_id]) ELSE 0

(* ------------------------------- maps ---------------------------------- *)
MapInsert(m, k, v) == [x \in (DOMAIN m) \cup {k} |-> IF x = k THEN v ELSE m[x]]
MapRemove(m, k) == [x \in (DOMAIN m) \ {k} |-> m[x]]
\* by_owner_id after inserting `key` into the set of `account_id`.
IndexInsert(index, account_id, key) ==
  MapInsert(index, account_id,
            (IF account_id \in DOMAIN index THEN index[account_id] ELSE {}) \cup {key})
\* by_owner_id after removing `key` from the set of `account_id`; an entry
\* whose set becomes empty is removed.
IndexRemove(index, account_id, key) ==
  IF account_id \in DOMAIN index
  THEN IF index[account_id] \ {key} = {}
       THEN MapRemove(index, account_id)
       ELSE MapInsert(index, account_id, index[account_id] \ {key})
  ELSE index

\* History: settlements[key] counts the settlements scheduled from the record
\* stored under key since that record was created.
Created(h, key) == MapInsert(h, key, 0)
Scheduled(h, key) == MapInsert(h, key, (IF key \in DOMAIN h THEN h[key] ELSE 0) + 1)

Init ==
  /\ owner_id = OWNER
  /\ treasury_id = TREASURY
  /\ transaction_fee = InitialTransactionFee
  /\ market = <<>>
  /\ offers = <<>>
  /\ by_owner_id = <<>>
  /\ storage_deposits = <<>>
  /\ approved_nft_contract_ids = {NFT}
  /\ purchase_promises = <<>>
  /\ offer_promises = <<>>
  /\ now = 0
  /\ transfers = NoTransfers
  /\ last = Call("new", OWNER, "", "", 0, "ok", "")
  /\ settlements = <<>>

(* ------------------------------ storage -------------------------------- *)
\* account_id: the account credited; None credits the caller.
storage_deposit(caller, account_id, deposit) ==
  LET storage_account_id == IF IsSome(account_id) THEN Unwrap(account_id) ELSE caller
  IN  IF deposit >= STORAGE_ADD_MARKET_DATA
      THEN /\ storage_deposits' =
                MapInsert(storage_deposits, storage_account_id,
                          storage_balance_of(storage_account_id) + deposit)
           /\ last' = Ok("storage_deposit", caller, "", storage_account_id, deposit)
           /\ transfers' = NoTransfers
           /\ UNCHANGED <<config, stores, promises, now, settlements>>
      ELSE Panic("storage_deposit")

\* Mutant: the whole balance is withdrawn, whatever the account holds.
storage_withdraw_all(caller, deposit) ==
  LET amount == storage_balance_of(caller)
  IN  IF deposit = 1
      THEN /\ storage_deposits' = MapRemove(storage_deposits, caller)
           /\ transfers' = IF amount > 0 THEN Transfer(caller, amount) ELSE NoTransfers
           /\ last' = Ok("storage_withdraw", caller, "", caller, amount)
           /\ UNCHANGED <<config, stores, promises, now, settlements>>
      ELSE Panic("storage_withdraw")

storage_withdraw(caller, deposit) ==
  LET amount == storage_balance_of(caller)
      diff == get_supply_by_owner_id(caller) * STORAGE_ADD_MARKET_DATA
  IN  IF deposit = 1 /\ amount >= diff
      THEN /\ storage_deposits' =
                IF diff > 0 THEN MapInsert(storage_deposits, caller, diff)
                ELSE MapRemove(storage_deposits, caller)
           /\ transfers' =
                IF amount - diff > 0 THEN Transfer(caller, amount - diff) ELSE NoTransfers
           /\ last' = Ok("storage_withdraw", caller, "", caller, amount - diff)
           /\ UNCHANGED <<config, stores, promises, now, settlements>>
      ELSE \* not one yocto, or amount -= diff underflows
           Panic("storage_withdraw")

(* ------------------------------ listings ------------------------------- *)
MarketData(owner, approval_id, nft_contract_id, token_id, ft_token_id, price, bids, started_at, ended_at, is_auction) ==
  [owner_id |-> owner, approval_id |-> approval_id,
   nft_contract_id |-> nft_contract_id, token_id |-> token_id,
   ft_token_id |-> ft_token_id, price |-> price, bids |-> bids,
   started_at |-> started_at, ended_at |-> ended_at, is_auction |-> is_auction]

Bid(bidder_id, price) == [bidder_id |-> bidder_id, price |-> price]

\* The asserts of internal_add_market_data.
internal_add_market_data_ok(price, started_at, ended_at) ==
  /\ IsSome(started_at) =>
       /\ Unwrap(started_at) >= now
       /\ IsSome(ended_at) => Unwrap(started_at) < Unwrap(ended_at)
  /\ IsSome(ended_at) => Unwrap(ended_at) >= now
  /\ price < MAX_PRICE

\* The stores after internal_add_market_data.
internal_add_market_data(mkt, index, owner, approval_id, nft_contract_id, token_id, ft_token_id, price, started_at, ended_at, is_auction) ==
  LET key == ContractAndTokenId(nft_contract_id, token_id)
      bids == IF IsSome(is_auction) /\ Unwrap(is_auction) THEN Some(<<>>) ELSE None
  IN  [market |-> MapInsert(mkt, key,
                   MarketData(owner, approval_id, nft_contract_id, token_id, ft_token_id,
                              price, bids, started_at, ended_at, is_auction)),
       by_owner_id |-> IndexInsert(index, owner, key)]

\* Mutant: the listing is read with get, not removed.
internal_get_market_data(mkt, index, nft_contract_id, token_id) ==
  LET key == ContractAndTokenId(nft_contract_id, token_id)
  IN  [market |-> mkt, by_owner_id |-> index, transfers |-> NoTransfers,
       result |-> IF key \in DOMAIN mkt THEN Some(mkt[key]) ELSE None]

\* The stores after internal_delete_market_data, the refunds it makes and the
\* listing it returns.
internal_delete_market_data(mkt, index, nft_contract_id, token_id) ==
  LET key == ContractAndTokenId(nft_contract_id, token_id)
  IN  IF key \in DOMAIN mkt
      THEN [market |-> MapRemove(mkt, key),
            by_owner_id |-> IndexRemove(index, mkt[key].owner_id, key),
            transfers |-> IF IsSome(mkt[key].bids)
                          THEN RefundBids(Unwrap(mkt[key].bids)) ELSE NoTransfers,
            result |-> Some(mkt[key])]
      ELSE [market |-> mkt, by_owner_id |-> index, transfers |-> NoTransfers,
            result |-> None]

\* The registry's approval callback asking for a sale: the admission checks,
\* then internal_add_market_data.  The storage quota gates listings as it
\* gates offers: the owner's balance covers one more reservation.
nft_on_approve_sale_ok(owner, ft_token_id, price, started_at, ended_at) ==
  /\ NFT \in approved_nft_contract_ids
  /\ ft_token_id = NEAR
  /\ storage_balance_of(owner) >= (get_supply_by_owner_id(owner) + 1) * storage_minimum_balance
  /\ internal_add_market_data_ok(price, started_at, ended_at)

nft_on_approve_sale(owner, approval_id, token_id, ft_token_id, price, started_at, ended_at, is_auction) ==
  IF nft_on_approve_sale_ok(owner, ft_token_id, price, started_at, ended_at)
  THEN LET r == internal_add_market_data(market, by_owner_id, owner, approval_id, NFT,
                   token_id, ft_token_id, price, started_at, ended_at, is_auction)
       IN  /\ market' = r.market
           /\ by_owner_id' = r.by_owner_id
           /\ transfers' = NoTransfers
           /\ last' = Ok("nft_on_approve_sale", owner, token_id, owner, price)
           /\ settlements' = Created(settlements, ContractAndTokenId(NFT, token_id))
           /\ UNCHANGED <<config, offers, storage_deposits, promises, now>>
  ELSE Panic("nft_on_approve_sale")

update_market_data_ok(caller, token_id, ft_token_id, price, deposit) ==
  LET key == ContractAndTokenId(NFT, token_id)
  IN  /\ deposit = 1
      /\ key \in DOMAIN market
      /\ market[key].owner_id = caller
      /\ ft_token_id = market[key].ft_token_id
      /\ price < MAX_PRICE

update_market_data(caller, token_id, ft_token_id, price, deposit) ==
  LET key == ContractAndTokenId(NFT, token_id)
  IN  IF update_market_data_ok(caller, token_id, ft_token_id, price, deposit)
      THEN /\ market' = MapInsert(market, key, [market[key] EXCEPT !.price = price])
           /\ transfers' = NoTransfers
           /\ last' = Ok("update_market_data", caller, token_id, caller, price)
           /\ UNCHANGED <<config, offers, by_owner_id, storage_deposits, promises, now, settlements>>
      ELSE Panic("update_market_data")

\* Mutant: the caller is not checked.
delete_market_data_ok_anyone(caller, token_id, deposit) ==
  LET key == ContractAndTokenId(NFT, token_id)
  IN  /\ deposit = 1
      /\ key \in DOMAIN market

delete_market_data_ok(caller, token_id, deposit) ==
  LET key == ContractAndTokenId(NFT, token_id)
  IN  /\ deposit = 1
      /\ key \in DOMAIN market
      /\ caller \in {market[key].owner_id, owner_id}

delete_market_data(caller, token_id, deposit) ==
  IF delete_market_data_ok(caller, token_id, deposit)
  THEN LET r == internal_delete_market_data(market, by_owner_id, NFT, token_id)
       IN  /\ market' = r.market
           /\ by_owner_id' = r.by_owner_id
           /\ transfers' = r.transfers
           /\ last' = Ok("delete_market_data", caller, token_id, caller, 0)
           /\ UNCHANGED <<config, offers, storage_deposits, promises, now, settlements>>
  ELSE Panic("delete_market_data")

(* ------------------------------ settlement ----------------------------- *)
promise_result_as_success(result) ==
  IF result.ok THEN Some([shape |-> result.shape, payout |-> result.payout]) ELSE None
is_promise_success(result) == result.ok

\* serde_json::from_slice::<PayoutHashMap>
ParsePayoutHashMap(value) == IF value.shape = "bare" THEN Some(value.payout) ELSE None
\* Mutant: the envelope is never tried.
ParsePayoutNever(value) == None

\* serde_json::from_slice::<Payout>, then its payout field
ParsePayout(value) == IF value.shape = "wrapped" THEN Some(value.payout) ELSE None

\* remainder = remainder.checked_sub(value)? over the values of the map.
RECURSIVE CheckedRemainder(_, _)
CheckedRemainder(remainder, payout) ==
  IF DOMAIN payout = {} THEN Some(remainder)
  ELSE LET k == CHOOSE x \in DOMAIN payout : TRUE
       IN  IF payout[k] > remainder THEN None
           ELSE CheckedRemainder(remainder - payout[k], MapRemove(payout, k))

\* Mutant: the remainder must be below 100.
ValidPayoutBelowTolerance(price, payout) ==
  LET remainder == CheckedRemainder(price, payout)
  IN  IF IsSome(remainder) /\ Unwrap(remainder) < PayoutTolerance
      THEN Some(payout) ELSE None

\* A parsed payout is kept when its amounts leave a remainder of at most 100.
ValidPayout(price, payout) ==
  LET remainder == CheckedRemainder(price, payout)
  IN  IF IsSome(remainder) /\ Unwrap(remainder) <= PayoutTolerance
      THEN Some(payout) ELSE None

PayoutOption(price, result) ==
  LET value == promise_result_as_success(result)
  IN  IF ~IsSome(value) THEN None
      ELSE LET parsed_payout == ParsePayoutHashMap(Unwrap(value))
           IN  IF ~IsSome(parsed_payout)
               THEN LET payout == ParsePayout(Unwrap(value))
                    IN  IF IsSome(payout) THEN ValidPayout(price, Unwrap(payout)) ELSE None
               ELSE ValidPayout(price, Unwrap(parsed_payout))

\* Mutant: the division is made before the multiplication.
TreasuryFeeDivFirst(price, fee) == (price \div FeeDenominator) * fee

\* price.0 * self.transaction_fee as u128 / 10_000u128
TreasuryFee(price, fee) == (price * fee) \div FeeDenominator

\* Mutant: the fee is paid on top of the seller's entry.
RECURSIVE PayoutTransfersFeeOnTop(_, _, _, _)
PayoutTransfersFeeOnTop(payout, seller, treasury_fee, treasury) ==
  IF DOMAIN payout = {} THEN NoTransfers
  ELSE LET receiver_id == CHOOSE x \in DOMAIN payout : TRUE
           rest == PayoutTransfersFeeOnTop(MapRemove(payout, receiver_id), seller,
                                           treasury_fee, treasury)
       IN  Plus(Plus(Transfer(receiver_id, payout[receiver_id]),
                     IF receiver_id = seller /\ treasury_fee # 0
                     THEN Transfer(treasury, treasury_fee) ELSE NoTransfers),
                rest)

\* The transfers of the payout loop: the seller's entry less the fee, the fee
\* to the treasury, every other entry as listed.
RECURSIVE PayoutTransfers(_, _, _, _)
PayoutTransfers(payout, seller, treasury_fee, treasury) ==
  IF DOMAIN payout = {} THEN NoTransfers
  ELSE LET receiver_id == CHOOSE x \in DOMAIN payout : TRUE
           rest == PayoutTransfers(MapRemove(payout, receiver_id), seller,
                                   treasury_fee, treasury)
       IN  IF receiver_id = seller
           THEN Plus(Plus(Transfer(receiver_id, payout[receiver_id] - treasury_fee),
                          IF treasury_fee # 0 THEN Transfer(treasury, treasury_fee)
                          ELSE NoTransfers),
                     rest)
           ELSE Plus(Transfer(receiver_id, payout[receiver_id]), rest)

\* amount.0 - treasury_fee underflows for the seller's entry: the subtraction
\* panics, or wraps to an amount above the contract's balance, which the
\* host refuses; either way the callback aborts.
PayoutUnderflows(payout, seller, treasury_fee) ==
  seller \in DOMAIN payout /\ payout[seller] < treasury_fee

Outcome(status, branch, t) == [status |-> status, branch |-> branch, transfers |-> t]

\* What resolve does with (refund_to, refund, seller, price): the parts in
\* which resolve_purchase and resolve_offer differ are its arguments.
Resolve(ft_token_id, refund_to, refund, seller, price, result, fee, treasury) ==
  LET payout_option == PayoutOption(price, result)
      treasury_fee == TreasuryFee(price, fee)
  IN  IF ~IsSome(payout_option)
      THEN IF ~is_promise_success(result)
           THEN Outcome("ok", "refund",
                        IF ft_token_id = NEAR THEN Transfer(refund_to, refund)
                        ELSE NoTransfers)
           ELSE IF ft_token_id = NEAR
                THEN Outcome("ok", "no_royalties",
                             Plus(Transfer(seller, price - treasury_fee),
                                  IF treasury_fee > 0 THEN Transfer(treasury, treasury_fee)
                                  ELSE NoTransfers))
                ELSE Outcome("ok", "unsupported", NoTransfers)
      ELSE IF ft_token_id = NEAR
           THEN IF PayoutUnderflows(Unwrap(payout_option), seller, treasury_fee)
                THEN Outcome("panic", "payout", NoTransfers)
                ELSE Outcome("ok", "payout",
                             PayoutTransfers(Unwrap(payout_option), seller,
                                             treasury_fee, treasury))
           ELSE Outcome("ok", "unsupported", NoTransfers)

\* Mutant: the refund is the listing price less the fee.
ResolvePurchaseRefundLessFee(buyer_id, market_data, price, result, fee, treasury) ==
  Resolve(market_data.ft_token_id, buyer_id,
          market_data.price - TreasuryFee(market_data.price, fee),
          market_data.owner_id, price, result, fee, treasury)

ResolvePurchase(buyer_id, market_data, price, result, fee, treasury) ==
  Resolve(market_data.ft_token_id, buyer_id, market_data.price, market_data.owner_id,
          price, result, fee, treasury)

ResolveOffer(seller_id, offer_data, token_id, result, fee, treasury) ==
  Resolve(offer_data.ft_token_id, offer_data.buyer_id, offer_data.price, seller_id,
          offer_data.price, result, fee, treasury)

BagAdd(b, e) == Plus(b, e :> 1)
BagRemove(b, e) == IF b[e] > 1 THEN [b EXCEPT ![e] = @ - 1] ELSE MapRemove(b, e)

PurchasePromise(buyer_id, market_data, price) ==
  [buyer_id |-> buyer_id, market_data |-> market_data, price |-> price]
OfferPromise(seller_id, offer_data, token_id) ==
  [seller_id |-> seller_id, offer_data |-> offer_data, token_id |-> token_id]

\* Mutant: the listing is read again from the store when one is stored under
\* the key.
resolve_purchase_reread(s, result) ==
  LET key == ContractAndTokenId(s.market_data.nft_contract_id, s.market_data.token_id)
      market_data == IF key \in DOMAIN market THEN market[key] ELSE s.market_data
      o == ResolvePurchase(s.buyer_id, market_data, s.price, result,
                           transaction_fee, treasury_id)
  IN  /\ purchase_promises' = BagRemove(purchase_promises, s)
      /\ transfers' = o.transfers
      /\ last' = Resolved("resolve_purchase", s.market_data.owner_id,
                          s.market_data.token_id, s.buyer_id, s.price, o.status,
                          o.branch, result)
      /\ UNCHANGED <<config, stores, storage_deposits, offer_promises, now, settlements>>

\* Mutant: the split uses the fee and the treasury of construction.
resolve_purchase_initial_fee(s, result) ==
  LET o == ResolvePurchase(s.buyer_id, s.market_data, s.price, result,
                           InitialTransactionFee, TREASURY)
  IN  /\ purchase_promises' = BagRemove(purchase_promises, s)
      /\ transfers' = o.transfers
      /\ last' = Resolved("resolve_purchase", s.market_data.owner_id,
                          s.market_data.token_id, s.buyer_id, s.price, o.status,
                          o.branch, result)
      /\ UNCHANGED <<config, stores, storage_deposits, offer_promises, now, settlements>>

\* Mutant: a failed transfer puts the listing back.
resolve_purchase_relist(s, result) ==
  LET o == ResolvePurchase(s.buyer_id, s.market_data, s.price, result,
                           transaction_fee, treasury_id)
      r == internal_add_market_data(market, by_owner_id, s.market_data.owner_id,
             s.market_data.approval_id, s.market_data.nft_contract_id,
             s.market_data.token_id, s.market_data.ft_token_id, s.market_data.price,
             s.market_data.started_at, s.market_data.ended_at, s.market_data.is_auction)
  IN  /\ purchase_promises' = BagRemove(purchase_promises, s)
      /\ transfers' = o.transfers
      /\ last' = Resolved("resolve_purchase", s.market_data.owner_id,
                          s.market_data.token_id, s.buyer_id, s.price, o.status,
                          o.branch, result)
      /\ market' = IF o.branch = "refund" THEN r.market ELSE market
      /\ by_owner_id' = IF o.branch = "refund" THEN r.by_owner_id ELSE by_owner_id
      /\ UNCHANGED <<config, offers, storage_deposits, offer_promises, now, settlements>>

\* The callback of a scheduled purchase runs once, with the registry's result.
resolve_purchase(s, result) ==
  LET o == ResolvePurchase(s.buyer_id, s.market_data, s.price, result,
                           transaction_fee, treasury_id)
  IN  /\ purchase_promises' = BagRemove(purchase_promises, s)
      /\ transfers' = o.transfers
      /\ last' = Resolved("resolve_purchase", s.market_data.owner_id,
                          s.market_data.token_id, s.buyer_id, s.price, o.status,
                          o.branch, result)
      /\ UNCHANGED <<config, stores, storage_deposits, offer_promises, now, settlements>>

resolve_offer(s, result) ==
  LET o == ResolveOffer(s.seller_id, s.offer_data, s.token_id, result,
                        transaction_fee, treasury_id)
  IN  /\ offer_promises' = BagRemove(offer_promises, s)
      /\ transfers' = o.transfers
      /\ last' = Resolved("resolve_offer", s.seller_id, s.token_id,
                          s.offer_data.buyer_id, s.offer_data.price, o.status,
                          o.branch, result)
      /\ UNCHANGED <<config, stores, storage_deposits, purchase_promises, now, settlements>>

(* ------------------------------- purchase ------------------------------ *)
\* internal_process_purchase: delete the listing, schedule the transfer and
\* its callback.
internal_process_purchase(mkt, index, nft_contract_id, token_id, buyer_id, price) ==
  LET r == internal_delete_market_data(mkt, index, nft_contract_id, token_id)
  IN  [ok |-> IsSome(r.result), market |-> r.market, by_owner_id |-> r.by_owner_id,
       transfers |-> r.transfers,
       promise |-> IF IsSome(r.result)
                   THEN Some(PurchasePromise(buyer_id, Unwrap(r.result), price))
                   ELSE None]

\* Mutant: a listing on auction can be bought.
buy_ok_auction(caller, token_id, ft_token_id, price, deposit) ==
  LET key == ContractAndTokenId(NFT, token_id)
  IN  /\ key \in DOMAIN market
      /\ caller # market[key].owner_id
      /\ market[key].ft_token_id = NEAR
      /\ IsSome(ft_token_id) => Unwrap(ft_token_id) = market[key].ft_token_id
      /\ IsSome(price) => Unwrap(price) = market[key].price
      /\ deposit >= market[key].price

buy_ok(caller, token_id, ft_token_id, price, deposit) ==
  LET key == ContractAndTokenId(NFT, token_id)
  IN  /\ key \in DOMAIN market
      /\ caller # market[key].owner_id
      /\ market[key].ft_token_id = NEAR
      /\ IsSome(ft_token_id) => Unwrap(ft_token_id) = market[key].ft_token_id
      /\ IsSome(price) => Unwrap(price) = market[key].price
      /\ IsSome(market[key].is_auction) => Unwrap(market[key].is_auction) = FALSE
      /\ deposit >= market[key].price

buy(caller, token_id, ft_token_id, price, deposit) ==
  IF buy_ok(caller, token_id, ft_token_id, price, deposit)
  THEN LET key == ContractAndTokenId(NFT, token_id)
           r == internal_process_purchase(market, by_owner_id, NFT, token_id, caller,
                                          market[key].price)
       IN  /\ market' = r.market
           /\ by_owner_id' = r.by_owner_id
           /\ transfers' = r.transfers
           /\ purchase_promises' = BagAdd(purchase_promises, Unwrap(r.promise))
           /\ last' = Ok("buy", caller, token_id, caller, market[key].price)
           /\ settlements' = Scheduled(settlements, key)
           /\ UNCHANGED <<config, offers, storage_deposits, offer_promises, now>>
  ELSE Panic("buy")

(* ------------------------------- auction ------------------------------- *)
BidsOf(market_data) ==
  IF IsSome(market_data.bids) THEN Unwrap(market_data.bids) ELSE <<>>
\* Mutant: the bids of account_id are not removed.
RetainedAll(bids, account_id) == bids

\* bids.retain(|bid| bid.bidder_id != account_id) and the refunds it makes
Retained(bids, account_id) == SelectSeq(bids, LAMBDA bid : bid.bidder_id # account_id)
\* Mutant: the retain closure refunds nobody.
RemovedNone(bids, account_id) == <<>>
Removed(bids, account_id) == SelectSeq(bids, LAMBDA bid : bid.bidder_id = account_id)

\* Mutant: a bid equal to the current bid is accepted.
add_bid_ok_equal_last(caller, token_id, ft_token_id, amount, deposit) ==
  LET key == ContractAndTokenId(NFT, token_id)
  IN  /\ key \in DOMAIN market
      /\ IsSome(market[key].started_at) => now >= Unwrap(market[key].started_at)
      /\ IsSome(market[key].ended_at) => now <= Unwrap(market[key].ended_at)
      /\ market[key].owner_id # caller
      /\ deposit >= amount
      /\ ft_token_id = NEAR
      /\ storage_balance_of(caller) >=
           (get_supply_by_owner_id(caller) + 1) * storage_minimum_balance
      /\ LET bids == BidsOf(market[key])
         IN  IF bids # <<>>
             THEN /\ amount >= bids[Len(bids)].price
                  /\ amount >= market[key].price
             ELSE amount >= market[key].price

\* Mutant: the start time is not checked.
add_bid_ok_no_start(caller, token_id, ft_token_id, amount, deposit) ==
  LET key == ContractAndTokenId(NFT, token_id)
  IN  /\ key \in DOMAIN market
      /\ IsSome(market[key].ended_at) => now <= Unwrap(market[key].ended_at)
      /\ market[key].owner_id # caller
      /\ deposit >= amount
      /\ ft_token_id = NEAR
      /\ storage_balance_of(caller) >=
           (get_supply_by_owner_id(caller) + 1) * storage_minimum_balance
      /\ LET bids == BidsOf(market[key])
         IN  IF bids # <<>>
             THEN /\ amount > bids[Len(bids)].price
                  /\ amount >= market[key].price
             ELSE amount >= market[key].price

add_bid_ok(caller, token_id, ft_token_id, amount, deposit) ==
  LET key == ContractAndTokenId(NFT, token_id)
  IN  /\ key \in DOMAIN market
      /\ IsSome(market[key].started_at) => now >= Unwrap(market[key].started_at)
      /\ IsSome(market[key].ended_at) => now <= Unwrap(market[key].ended_at)
      /\ market[key].owner_id # caller
      /\ deposit >= amount
      /\ ft_token_id = NEAR
      /\ storage_balance_of(caller) >=
           (get_supply_by_owner_id(caller) + 1) * storage_minimum_balance
      /\ LET bids == BidsOf(market[key])
         IN  IF bids # <<>>
             THEN /\ amount > bids[Len(bids)].price
                  /\ amount >= market[key].price
             ELSE amount >= market[key].price

add_bid(caller, token_id, ft_token_id, amount, deposit) ==
  IF add_bid_ok(caller, token_id, ft_token_id, amount, deposit)
  THEN LET key == ContractAndTokenId(NFT, token_id)
           bids == BidsOf(market[key])
       IN  /\ market' = MapInsert(market, key,
                          [market[key] EXCEPT
                             !.bids = Some(Append(Retained(bids, caller),
                                                  Bid(caller, amount)))])
           /\ transfers' = RefundBids(Removed(bids, caller))
           /\ last' = Ok("add_bid", caller, token_id, caller, amount)
           /\ UNCHANGED <<config, offers, by_owner_id, storage_deposits, promises, now, settlements>>
  ELSE Panic("add_bid")

\* Mutant: a bid is accepted only until the end time.
accept_bid_ok_until_end(caller, token_id, deposit) ==
  LET key == ContractAndTokenId(NFT, token_id)
  IN  /\ deposit = 1
      /\ key \in DOMAIN market
      /\ market[key].owner_id = caller
      /\ IsSome(market[key].bids)
      /\ Unwrap(market[key].bids) # <<>>
      /\ IsSome(market[key].ended_at) => now <= Unwrap(market[key].ended_at)

accept_bid_ok(caller, token_id, deposit) ==
  LET key == ContractAndTokenId(NFT, token_id)
  IN  /\ deposit = 1
      /\ key \in DOMAIN market
      /\ market[key].owner_id = caller
      /\ IsSome(market[key].bids)
      /\ Unwrap(market[key].bids) # <<>>

\* Mutant: the bid list is saved without bids.clear().
SelectBidUncleared(bids) ==
  [selected_bid |-> bids[Len(bids)],
   refunded |-> SubSeq(bids, 1, Len(bids) - 1),
   bids |-> SubSeq(bids, 1, Len(bids) - 1)]

\* What accept_bid does with the bid list: bids.remove(bids.len() - 1) is the
\* selected bid, the bids left are refunded, and bids.clear() leaves the list
\* that is saved.
SelectBid(bids) ==
  [selected_bid |-> bids[Len(bids)],
   refunded |-> SubSeq(bids, 1, Len(bids) - 1),
   bids |-> <<>>]

accept_bid(caller, token_id, deposit) ==
  IF accept_bid_ok(caller, token_id, deposit)
  THEN LET key == ContractAndTokenId(NFT, token_id)
           b == SelectBid(Unwrap(market[key].bids))
           selected_bid == b.selected_bid
           saved == MapInsert(market, key, [market[key] EXCEPT !.bids = Some(b.bids)])
           r == internal_process_purchase(saved, by_owner_id,
                                          market[key].nft_contract_id, token_id,
                                          selected_bid.bidder_id, selected_bid.price)
       IN  /\ market' = r.market
           /\ by_owner_id' = r.by_owner_id
           /\ transfers' = Plus(RefundBids(b.refunded), r.transfers)
           /\ purchase_promises' = BagAdd(purchase_promises, Unwrap(r.promise))
           /\ last' = Ok("accept_bid", caller, token_id, selected_bid.bidder_id,
                         selected_bid.price)
           /\ settlements' = Scheduled(settlements, key)
           /\ UNCHANGED <<config, offers, storage_deposits, offer_promises, now>>
  ELSE Panic("accept_bid")

\* The stores and refunds of internal_cancel_bid.
internal_cancel_bid(mkt, nft_contract_id, token_id, account_id) ==
  LET key == ContractAndTokenId(nft_contract_id, token_id)
      bids == Unwrap(mkt[key].bids)
  IN  [market |-> MapInsert(mkt, key,
                    [mkt[key] EXCEPT !.bids = Some(Retained(bids, account_id))]),
       transfers |-> RefundBids(Removed(bids, account_id))]

\* Mutant: the caller is not checked.
cancel_bid_ok_anyone(caller, token_id, account_id, deposit) ==
  LET key == ContractAndTokenId(NFT, token_id)
  IN  /\ deposit = 1
      /\ key \in DOMAIN market
      /\ IsSome(market[key].bids)
      /\ Unwrap(market[key].bids) # <<>>

cancel_bid_ok(caller, token_id, account_id, deposit) ==
  LET key == ContractAndTokenId(NFT, token_id)
  IN  /\ deposit = 1
      /\ key \in DOMAIN market
      /\ IsSome(market[key].bids)
      /\ Unwrap(market[key].bids) # <<>>
      /\ \A x \in DOMAIN Unwrap(market[key].bids) :
            Unwrap(market[key].bids)[x].bidder_id = account_id =>
              caller \in {Unwrap(market[key].bids)[x].bidder_id, owner_id}

cancel_bid(caller, token_id, account_id, deposit) ==
  IF cancel_bid_ok(caller, token_id, account_id, deposit)
  THEN LET r == internal_cancel_bid(market, NFT, token_id, account_id)
       IN  /\ market' = r.market
           /\ transfers' = r.transfers
           /\ last' = Ok("cancel_bid", caller, token_id, account_id, 0)
           /\ UNCHANGED <<config, offers, by_owner_id, storage_deposits, promises, now, settlements>>
  ELSE Panic("cancel_bid")

(* -------------------------------- offers ------------------------------- *)
OfferData(buyer_id, nft_contract_id, token_id, ft_token_id, price) ==
  [buyer_id |-> buyer_id, nft_contract_id |-> nft_contract_id, token_id |-> token_id,
   ft_token_id |-> ft_token_id, price |-> price]

internal_add_offer(ofs, index, nft_contract_id, token_id, ft_token_id, price, buyer_id) ==
  LET key == make_triple(nft_contract_id, buyer_id, token_id)
  IN  [offers |-> MapInsert(ofs, key,
                    OfferData(buyer_id, nft_contract_id, token_id, ft_token_id, price)),
       by_owner_id |-> IndexInsert(index, buyer_id, key)]

\* Mutant: the key stays in the buyer's index entry.
internal_delete_offer_keep_index(ofs, index, nft_contract_id, buyer_id, token_id) ==
  LET key == make_triple(nft_contract_id, buyer_id, token_id)
  IN  IF key \in DOMAIN ofs
      THEN [offers |-> MapRemove(ofs, key), by_owner_id |-> index,
            result |-> Some(ofs[key])]
      ELSE [offers |-> ofs, by_owner_id |-> index, result |-> None]

internal_delete_offer(ofs, index, nft_contract_id, buyer_id, token_id) ==
  LET key == make_triple(nft_contract_id, buyer_id, token_id)
  IN  IF key \in DOMAIN ofs
      THEN [offers |-> MapRemove(ofs, key),
            by_owner_id |-> IndexRemove(index, ofs[key].buyer_id, key),
            result |-> Some(ofs[key])]
      ELSE [offers |-> ofs, by_owner_id |-> index, result |-> None]

\* Mutant: the prior offer is deleted without a refund.
OfferRefundNone(buyer_id, offer_data) == NoTransfers

\* The refund add_offer makes of the offer internal_delete_offer returned.
OfferRefund(buyer_id, offer_data) ==
  IF IsSome(offer_data) THEN Transfer(buyer_id, Unwrap(offer_data).price)
  ELSE NoTransfers

\* The asserts of add_offer; the storage check runs after the caller's prior
\* offer for the key was deleted.
add_offer_ok(caller, token_id, ft_token_id, price, deposit) ==
  LET d == internal_delete_offer(offers, by_owner_id, NFT, caller, token_id)
      supply == IF caller \in DOMAIN d.by_owner_id
                THEN Cardinality(d.by_owner_id[caller]) ELSE 0
  IN  /\ NFT \in approved_nft_contract_ids
      /\ deposit = price
      /\ ft_token_id = NEAR
      /\ storage_balance_of(caller) >= (supply + 1) * storage_minimum_balance

\* Mutant: the prior offer is removed and refunded before the deposit and
\* the storage balance are checked, and a rejection keeps that.
add_offer_partial(caller, token_id, ft_token_id, price, deposit) ==
  LET d == internal_delete_offer(offers, by_owner_id, NFT, caller, token_id)
      a == internal_add_offer(d.offers, d.by_owner_id, NFT, token_id, ft_token_id,
                              price, caller)
  IN  IF add_offer_ok(caller, token_id, ft_token_id, price, deposit)
      THEN /\ offers' = a.offers
           /\ by_owner_id' = a.by_owner_id
           /\ transfers' = OfferRefund(caller, d.result)
           /\ last' = Ok("add_offer", caller, token_id, caller, price)
           /\ settlements' = Created(settlements, make_triple(NFT, caller, token_id))
           /\ UNCHANGED <<config, market, storage_deposits, promises, now>>
      ELSE IF NFT \in approved_nft_contract_ids
           THEN /\ offers' = d.offers
                /\ by_owner_id' = d.by_owner_id
                /\ transfers' = OfferRefund(caller, d.result)
                /\ last' = Panicked("add_offer")
                /\ UNCHANGED <<config, market, storage_deposits, promises, now, settlements>>
           ELSE Panic("add_offer")

add_offer(caller, token_id, ft_token_id, price, deposit) ==
  IF add_offer_ok(caller, token_id, ft_token_id, price, deposit)
  THEN LET d == internal_delete_offer(offers, by_owner_id, NFT, caller, token_id)
           a == internal_add_offer(d.offers, d.by_owner_id, NFT, token_id, ft_token_id,
                                   price, caller)
       IN  /\ offers' = a.offers
           /\ by_owner_id' = a.by_owner_id
           /\ transfers' = OfferRefund(caller, d.result)
           /\ last' = Ok("add_offer", caller, token_id, caller, price)
           /\ settlements' = Created(settlements, make_triple(NFT, caller, token_id))
           /\ UNCHANGED <<config, market, storage_deposits, promises, now>>
  ELSE Panic("add_offer")

delete_offer_ok(caller, token_id, deposit) ==
  LET key == make_triple(NFT, caller, token_id)
  IN  /\ deposit = 1
      /\ key \in DOMAIN offers
      /\ offers[key].token_id = token_id
      /\ offers[key].buyer_id = caller

delete_offer(caller, token_id, deposit) ==
  IF delete_offer_ok(caller, token_id, deposit)
  THEN LET key == make_triple(NFT, caller, token_id)
           d == internal_delete_offer(offers, by_owner_id, NFT, caller, token_id)
       IN  /\ offers' = d.offers
           /\ by_owner_id' = d.by_owner_id
           /\ transfers' = Transfer(offers[key].buyer_id, offers[key].price)
           /\ last' = Ok("delete_offer", caller, token_id, caller, offers[key].price)
           /\ UNCHANGED <<config, market, storage_deposits, promises, now, settlements>>
  ELSE Panic("delete_offer")

\* internal_accept_offer: delete the listing of the asset, check the offer,
\* delete it, schedule the transfer and its callback.
internal_accept_offer_ok(nft_contract_id, buyer_id, token_id, price) ==
  LET key == make_triple(nft_contract_id, buyer_id, token_id)
  IN  /\ key \in DOMAIN offers
      /\ offers[key].token_id = token_id
      /\ offers[key].price = price

\* Mutant: the listing of the asset is left in place.
internal_accept_offer_keep_listing(nft_contract_id, buyer_id, token_id, seller_id, approval_id, price) ==
  LET d == internal_delete_offer(offers, by_owner_id, nft_contract_id, buyer_id, token_id)
  IN  [market |-> market, offers |-> d.offers, by_owner_id |-> d.by_owner_id,
       transfers |-> NoTransfers,
       promise |-> OfferPromise(seller_id, Unwrap(d.result), token_id)]

internal_accept_offer(nft_contract_id, buyer_id, token_id, seller_id, approval_id, price) ==
  LET m == internal_delete_market_data(market, by_owner_id, nft_contract_id, token_id)
      d == internal_delete_offer(offers, m.by_owner_id, nft_contract_id, buyer_id, token_id)
  IN  [market |-> m.market, offers |-> d.offers, by_owner_id |-> d.by_owner_id,
       transfers |-> m.transfers,
       promise |-> OfferPromise(seller_id, Unwrap(d.result), token_id)]

\* The registry's approval callback asking to accept an offer.
nft_on_approve_accept_offer(seller_id, buyer_id, token_id, approval_id, price) ==
  IF internal_accept_offer_ok(NFT, buyer_id, token_id, price)
  THEN LET r == internal_accept_offer(NFT, buyer_id, token_id, seller_id, approval_id,
                                      price)
       IN  /\ market' = r.market
           /\ offers' = r.offers
           /\ by_owner_id' = r.by_owner_id
           /\ transfers' = r.transfers
           /\ offer_promises' = BagAdd(offer_promises, r.promise)
           /\ last' = Ok("nft_on_approve_accept_offer", seller_id, token_id, buyer_id,
                         price)
           /\ settlements' = Scheduled(settlements, make_triple(NFT, buyer_id, token_id))
           /\ UNCHANGED <<config, storage_deposits, purchase_promises, now>>
  ELSE Panic("nft_on_approve_accept_offer")

(* ---------------------------- configuration ---------------------------- *)
set_treasury(caller, new_treasury_id, deposit) ==
  IF deposit = 1 /\ caller = owner_id
  THEN /\ treasury_id' = new_treasury_id
       /\ transfers' = NoTransfers
       /\ last' = Ok("set_treasury", caller, "", new_treasury_id, 0)
       /\ UNCHANGED <<owner_id, transaction_fee, approved_nft_contract_ids, stores,
                      storage_deposits, promises, now, settlements>>
  ELSE Panic("set_treasury")

transfer_ownership(caller, new_owner_id, deposit) ==
  IF deposit = 1 /\ caller = owner_id
  THEN /\ owner_id' = new_owner_id
       /\ transfers' = NoTransfers
       /\ last' = Ok("transfer_ownership", caller, "", new_owner_id, 0)
       /\ UNCHANGED <<treasury_id, transaction_fee, approved_nft_contract_ids, stores,
                      storage_deposits, promises, now, settlements>>
  ELSE Panic("transfer_ownership")

\* add_accounts and remove_accounts: each id of the list is inserted into,
\* or removed from, the set.
add_accounts(accounts, set) == set \cup accounts
remove_accounts(accounts, set) == set \ accounts

add_approved_nft_contract_ids(caller, nft_contract_ids, deposit) ==
  IF deposit = 1 /\ caller = owner_id
  THEN /\ approved_nft_contract_ids' =
            add_accounts(nft_contract_ids, approved_nft_contract_ids)
       /\ transfers' = NoTransfers
       /\ last' = Ok("add_approved_nft_contract_ids", caller, "", "", 0)
       /\ UNCHANGED <<owner_id, treasury_id, transaction_fee, stores,
                      storage_deposits, promises, now, settlements>>
  ELSE Panic("add_approved_nft_contract_ids")

remove_approved_nft_contract_ids(caller, nft_contract_ids, deposit) ==
  IF deposit = 1 /\ caller = owner_id
  THEN /\ approved_nft_contract_ids' =
            remove_accounts(nft_contract_ids, approved_nft_contract_ids)
       /\ transfers' = NoTransfers
       /\ last' = Ok("remove_approved_nft_contract_ids", caller, "", "", 0)
       /\ UNCHANGED <<owner_id, treasury_id, transaction_fee, stores,
                      storage_deposits, promises, now, settlements>>
  ELSE Panic("remove_approved_nft_contract_ids")

\* Mutant: the fee 10_000 is accepted.
set_transaction_fee_inclusive(caller, next_fee, deposit) ==
  IF deposit = 1 /\ caller = owner_id /\ next_fee <= FeeDenominator
  THEN /\ transaction_fee' = next_fee
       /\ transfers' = NoTransfers
       /\ last' = Ok("set_transaction_fee", caller, "", "", next_fee)
       /\ UNCHANGED <<owner_id, treasury_id, approved_nft_contract_ids, stores,
                      storage_deposits, promises, now, settlements>>
  ELSE Panic("set_transaction_fee")

set_transaction_fee(caller, next_fee, deposit) ==
  IF deposit = 1 /\ caller = owner_id /\ next_fee < FeeDenominator
  THEN /\ transaction_fee' = next_fee
       /\ transfers' = NoTransfers
       /\ last' = Ok("set_transaction_fee", caller, "", "", next_fee)
       /\ UNCHANGED <<owner_id, treasury_id, approved_nft_contract_ids, stores,
                      storage_deposits, promises, now, settlements>>
  ELSE Panic("set_transaction_fee")

(* ------------------------- registry responses -------------------------- *)
PayoutMaps ==
  UNION {[rs -> PayoutAmounts] : rs \in SUBSET PayoutRecipients}
\* every answer over the payout maps: failed or not, in each shape
Results ==
  {Result(ok, shape, payout) : ok \in BOOLEAN, shape \in {"bare", "wrapped"},
                               payout \in PayoutMaps}
    \cup {Result(ok, "garbage", <<>>) : ok \in BOOLEAN}
\* a few answers: failed (with and without bytes), unparseable, a payout that
\* names the seller, one whose seller entry is below the fee, one without
\* the seller, one that sums too low
FewResults ==
  {Result(FALSE, "garbage", <<>>),
   Result(FALSE, "bare", ("alice" :> 950) @@ (ROYALTY :> 50)),
   Result(TRUE, "garbage", <<>>),
   Result(TRUE, "bare", ("alice" :> 950) @@ (ROYALTY :> 50)),
   Result(TRUE, "wrapped", ("alice" :> 450) @@ (ROYALTY :> 50)),
   Result(TRUE, "wrapped", ("alice" :> 10) @@ (ROYALTY :> 990)),
   Result(TRUE, "bare", (ROYALTY :> 990)),
   Result(TRUE, "bare", ("alice" :> 50) @@ (ROYALTY :> 50))}

\* three answers: failed, unparseable, a payout that names the seller
RelistResults ==
  {Result(FALSE, "garbage", <<>>),
   Result(TRUE, "garbage", <<>>),
   Result(TRUE, "bare", ("alice" :> 950) @@ (ROYALTY :> 50))}

(* --------------------------- specifications ---------------------------- *)
\* The code bounds neither a storage balance nor the number of settlements
\* that are scheduled and not yet resolved.  The specifications take a step
\* only when its successor is within MaxStorageUnits units per account and
\* the given number of pending settlements; a rejected call changes neither,
\* so it is never excluded.
PendingSettlements == BagSize(purchase_promises) + BagSize(offer_promises)
StorageWithin == \A a \in DOMAIN storage_deposits : storage_deposits[a] <= MaxStorageUnits * STORAGE_ADD_MARKET_DATA
PurchasePending(token_id) ==
  \E s \in DOMAIN purchase_promises : s.market_data.token_id = token_id

\* Spec: the marketplace from construction, with every public method and
\* both callbacks; one caller and one argument list per kind of call.  Its
\* listings have no selling window (started_at and ended_at are None), so no
\* call reads the ledger time and now stays 0.  The other specifications
\* restrict the methods called and widen their arguments.
Next ==
  \/ \E a \in {None, Some("alice")}, d \in StorageDeposits :
       storage_deposit("bob", a, d) /\ StorageWithin'
  \/ \E d \in Yocto : storage_withdraw("bob", d)
  \/ \E au \in AuctionFlags : nft_on_approve_sale("alice", 1, "t1", NEAR, 100, None, None, au)
  \/ update_market_data("alice", "t1", NEAR, 1000, 1)
  \/ \E c \in Admins : delete_market_data(c, "t1", 1)
  \/ buy("bob", "t1", None, None, 1000) /\ PendingSettlements' <= MaxPending
  \/ add_bid("bob", "t1", NEAR, 150, 150)
  \/ accept_bid("alice", "t1", 1) /\ PendingSettlements' <= MaxPending
  \/ cancel_bid("bob", "t1", "bob", 1)
  \/ add_offer("bob", "t1", NEAR, 500, 500)
  \/ delete_offer("bob", "t1", 1)
  \/ nft_on_approve_accept_offer("alice", "bob", "t1", 1, 500) /\ PendingSettlements' <= MaxPending
  \/ \E c \in Admins, t \in Treasuries : set_treasury(c, t, 1)
  \/ \E c \in Admins, f \in {InitialTransactionFee, FeeDenominator} :
       set_transaction_fee(c, f, 1)
  \/ \E c \in Admins, o \in Admins : transfer_ownership(c, o, 1)
  \/ \E c \in Admins : add_approved_nft_contract_ids(c, {NFT}, 1)
  \/ \E c \in Admins : remove_approved_nft_contract_ids(c, {NFT}, 1)
  \/ \E s \in DOMAIN purchase_promises, r \in RelistResults : resolve_purchase(s, r)
  \/ \E s \in DOMAIN offer_promises, r \in RelistResults : resolve_offer(s, r)

Spec == Init /\ [][Next]_vars

\* SpecBids: listings and auctions of t1 by alice, bought and bid on by
\* every user with deposits that match and that do not; no offers.
NextBids ==
  \/ \E c \in Users, d \in StorageDeposits : storage_deposit(c, None, d) /\ StorageWithin'
  \/ \E o \in Sellers, a \in ApprovalIds, t \in Tokens, f \in FtTokens, p \in ListPrices,
        au \in AuctionFlags :
       nft_on_approve_sale(o, a, t, f, p, None, None, au)
  \/ \E c \in Sellers \cup {OWNER}, t \in Tokens, p \in UpdatePrices, d \in Yocto :
       update_market_data(c, t, NEAR, p, d)
  \/ \E c \in Callers, t \in Tokens, d \in Yocto : delete_market_data(c, t, d)
  \/ \E c \in Users, t \in Tokens, p \in {None, Some(100)}, d \in BuyDeposits :
       buy(c, t, None, p, d) /\ PendingSettlements' <= MaxPending
  \/ \E c \in Users, t \in Tokens, a \in BidAmounts, d \in BidAmounts :
       add_bid(c, t, NEAR, a, d)
  \/ \E c \in Sellers \cup {OWNER}, t \in Tokens, d \in Yocto :
       accept_bid(c, t, d) /\ PendingSettlements' <= MaxPending
  \/ \E c \in Callers, t \in Tokens, a \in Buyers : cancel_bid(c, t, a, 1)
  \/ \E s \in DOMAIN purchase_promises, r \in FewResults : resolve_purchase(s, r)

SpecBids == Init /\ [][NextBids]_vars

\* SpecOffers: offers of bob on t1, made, replaced, deleted and accepted by
\* alice, whose listing of t1 (with a bid of carol) the acceptance removes;
\* the owner withdraws and restores the registry's approval.
NextOffers ==
  \/ \E c \in Users, d \in StorageDeposits : storage_deposit(c, None, d) /\ StorageWithin'
  \/ \E c \in Buyers, d \in Yocto : storage_withdraw(c, d)
  \/ \E p \in ListPrices, au \in AuctionFlags :
       nft_on_approve_sale("alice", 1, "t1", NEAR, p, None, None, au)
  \/ add_bid("carol", "t1", NEAR, 100, 100)
  \/ \E c \in OfferBuyers, t \in Tokens, f \in FtTokens, p \in OfferPrices, d \in OfferPrices :
       add_offer(c, t, f, p, d)
  \/ \E c \in Buyers, t \in Tokens, d \in Yocto : delete_offer(c, t, d)
  \/ \E s \in Sellers, b \in Buyers, t \in Tokens, a \in ApprovalIds, p \in OfferPrices :
       nft_on_approve_accept_offer(s, b, t, a, p) /\ PendingSettlements' <= MaxPending
  \/ \E c \in Admins : remove_approved_nft_contract_ids(c, {NFT}, 1)
  \/ \E c \in Admins : add_approved_nft_contract_ids(c, {NFT}, 1)
  \/ \E s \in DOMAIN offer_promises, r \in FewResults : resolve_offer(s, r)

SpecOffers == Init /\ [][NextOffers]_vars

\* SpecSettle: one settlement has been scheduled (by buy, by accept_bid after
\* a bid of bob, or by accepting an offer of bob); the owner sets the fee and
\* the treasury, and the registry answers.
InitSettle ==
  /\ owner_id = OWNER
  /\ treasury_id = TREASURY
  /\ transaction_fee = InitialTransactionFee
  /\ market = <<>>
  /\ offers = <<>>
  /\ by_owner_id = <<>>
  /\ approved_nft_contract_ids = {NFT}
  /\ now = 0
  /\ transfers = NoTransfers
  /\ \E price \in SettlePrices :
       \/ /\ storage_deposits = "alice" :> 2 * STORAGE_ADD_MARKET_DATA
          /\ purchase_promises =
               PurchasePromise("bob",
                 MarketData("alice", 1, NFT, "t1", NEAR, price, None, None, None, None),
                 price) :> 1
          /\ offer_promises = <<>>
          /\ last = Ok("buy", "bob", "t1", "bob", price)
          /\ settlements = ContractAndTokenId(NFT, "t1") :> 1
       \/ /\ price >= 100
          /\ storage_deposits = ("alice" :> 2 * STORAGE_ADD_MARKET_DATA) @@ ("bob" :> 2 * STORAGE_ADD_MARKET_DATA)
          /\ purchase_promises =
               PurchasePromise("bob",
                 MarketData("alice", 1, NFT, "t1", NEAR, 100, Some(<<>>), None, None,
                            Some(TRUE)),
                 price) :> 1
          /\ offer_promises = <<>>
          /\ last = Ok("accept_bid", "alice", "t1", "bob", price)
          /\ settlements = ContractAndTokenId(NFT, "t1") :> 1
       \/ /\ storage_deposits = "bob" :> 2 * STORAGE_ADD_MARKET_DATA
          /\ purchase_promises = <<>>
          /\ offer_promises =
               OfferPromise("alice", OfferData("bob", NFT, "t1", NEAR, price), "t1") :> 1
          /\ last = Ok("nft_on_approve_accept_offer", "alice", "t1", "bob", price)
          /\ settlements = make_triple(NFT, "bob", "t1") :> 1

NextSettle ==
  \/ \E c \in {OWNER, "alice"}, f \in Fees, d \in Yocto : set_transaction_fee(c, f, d)
  \/ \E c \in {OWNER, "alice"}, t \in Treasuries, d \in Yocto : set_treasury(c, t, d)
  \/ \E s \in DOMAIN purchase_promises, r \in Results : resolve_purchase(s, r)
  \/ \E s \in DOMAIN offer_promises, r \in Results : resolve_offer(s, r)

SpecSettle == InitSettle /\ [][NextSettle]_vars

\* SpecRelist: the marketplace from construction, with listings created,
\* re-priced, bid on, bought and deleted while settlements of the same asset
\* are pending, and the ownership of the marketplace transferred.
NextRelist ==
  \/ \E c \in {"alice", "bob"} :
       storage_deposit(c, None, 2 * STORAGE_ADD_MARKET_DATA) /\ StorageWithin'
  \/ \E au \in AuctionFlags : nft_on_approve_sale("alice", 1, "t1", NEAR, 100, None, None, au)
  \/ update_market_data("alice", "t1", NEAR, 1000, 1)
  \/ delete_market_data("alice", "t1", 1)
  \/ \E c \in Buyers : buy(c, "t1", None, None, 1000) /\ PendingSettlements' <= MaxPendingRelist
  \/ add_bid("bob", "t1", NEAR, 150, 150)
  \/ accept_bid("alice", "t1", 1) /\ PendingSettlements' <= MaxPendingRelist
  \/ cancel_bid("bob", "t1", "bob", 1)
  \/ \E p \in OfferPrices : add_offer("bob", "t1", NEAR, p, p)
  \/ delete_offer("bob", "t1", 1)
  \/ nft_on_approve_accept_offer("alice", "bob", "t1", 1, 500) /\ PendingSettlements' <= MaxPendingRelist
  \/ \E c \in Admins, o \in Admins : transfer_ownership(c, o, 1)
  \/ \E s \in DOMAIN purchase_promises, r \in RelistResults : resolve_purchase(s, r)
  \/ \E s \in DOMAIN offer_promises, r \in RelistResults : resolve_offer(s, r)

SpecRelist == Init /\ [][NextRelist]_vars

\* SpecOwners: the marketplace from construction, with two accounts that
\* list the asset.  One of them (bob) also bids, makes offers and withdraws
\* storage; listings may start at time 1, which the ledger time 0 has not
\* reached; the calls include ones that are rejected.
Owners == {"alice", "bob"}
StartTimes == {None, Some(1)}
OwnersResults == {Result(FALSE, "garbage", <<>>), Result(TRUE, "garbage", <<>>)}

NextOwners ==
  \/ \E c \in Owners, a \in {None, Some("bob")}, d \in StorageDeposits :
       storage_deposit(c, a, d) /\ StorageWithin'
  \/ \E d \in Yocto : storage_withdraw("bob", d)
  \/ \E o \in Owners, p \in ListPrices, st \in StartTimes, au \in AuctionFlags :
       nft_on_approve_sale(o, 1, "t1", NEAR, p, st, None, au)
  \/ \E c \in Owners, p \in {1000, MAX_PRICE} : update_market_data(c, "t1", NEAR, p, 1)
  \/ \E c \in Owners \cup {OWNER} : delete_market_data(c, "t1", 1)
  \/ \E c \in {"bob", "carol"}, d \in {50, 100} :
       buy(c, "t1", None, None, d) /\ PendingSettlements' <= MaxPending
  \/ \E d \in {100, 150} : add_bid("bob", "t1", NEAR, 150, d)
  \/ \E c \in Owners : accept_bid(c, "t1", 1) /\ PendingSettlements' <= MaxPending
  \/ \E c \in {"bob", "carol"} : cancel_bid(c, "t1", "bob", 1)
  \/ \E p \in OfferPrices, d \in OfferPrices : add_offer("bob", "t1", NEAR, p, d)
  \/ \E c \in {"bob", "carol"} : delete_offer(c, "t1", 1)
  \/ \E p \in OfferPrices :
       nft_on_approve_accept_offer("alice", "bob", "t1", 1, p) /\ PendingSettlements' <= MaxPending
  \/ \E c \in Admins, f \in {InitialTransactionFee, FeeDenominator} :
       set_transaction_fee(c, f, 1)
  \/ \E s \in DOMAIN purchase_promises, r \in OwnersResults : resolve_purchase(s, r)
  \/ \E s \in DOMAIN offer_promises, r \in OwnersResults : resolve_offer(s, r)

SpecOwners == Init /\ [][NextOwners]_vars

\* The ledger time read by env::block_timestamp() advances between calls.
Tick ==
  /\ now < MaxTime
  /\ now' = now + 1
  /\ transfers' = NoTransfers
  /\ last' = Ok("block", "", "", "", now + 1)
  /\ UNCHANGED <<config, stores, storage_deposits, promises, settlements>>

\* SpecTimed: an auction of t1 with a selling window, bid on, cancelled,
\* accepted and deleted while the ledger time passes from before the start
\* to after the end.
EndTimes == {None, Some(2)}
Bidders == {"alice", "bob", "carol"}
TimedBids == {100, 150}

NextTimed ==
  \/ \E c \in Bidders : storage_deposit(c, None, 2 * STORAGE_ADD_MARKET_DATA) /\ StorageWithin'
  \/ \E st \in StartTimes, en \in EndTimes :
       nft_on_approve_sale("alice", 1, "t1", NEAR, 100, st, en, Some(TRUE))
  \/ \E c \in Bidders, a \in TimedBids : add_bid(c, "t1", NEAR, a, a)
  \/ \E c \in {"alice", "bob"} : accept_bid(c, "t1", 1) /\ PendingSettlements' <= MaxPending
  \/ \E c \in Buyers : cancel_bid(c, "t1", "bob", 1)
  \/ delete_market_data("alice", "t1", 1)
  \/ Tick
  \/ \E s \in DOMAIN purchase_promises, r \in OwnersResults : resolve_purchase(s, r)

SpecTimed == Init /\ [][NextTimed]_vars

(* ------------------------------ properties ----------------------------- *)
ResolveOps == {"resolve_purchase", "resolve_offer"}
\* The last call was a resolve: last.caller is the seller, last.account the
\* buyer, last.amount the settlement price, last.result the registry's answer.
IsResolve == last.op \in ResolveOps
ListingKey(token_id) == ContractAndTokenId(NFT, token_id)

\* C1: when the registry's transfer call failed, resolve transfers the
\* settlement price (the listing price after buy, the winning bid after
\* accept_bid, the offer price after accepting an offer) to the buyer and
\* makes no other transfer, whatever bytes came with the failure.
C1_RefundIsSettlementPrice ==
  (IsResolve /\ ~last.result.ok) =>
     transfers = Transfer(last.account, last.amount)

\* C2: in every reachable state the bids of every listing are strictly
\* increasing in price from first to last, and no bidder has two of them.
C2_BidsStrictlyIncreasing ==
  \A key \in DOMAIN market :
     LET bids == BidsOf(market[key])
     IN  \A i, j \in DOMAIN bids :
            i < j => /\ bids[i].price < bids[j].price
                     /\ bids[i].bidder_id # bids[j].bidder_id

\* A bidder replaced an earlier bid on a listing that keeps another bid.
C2_Witness ==
  /\ last.op = "add_bid" /\ last.status = "ok"
  /\ transfers # NoTransfers
  /\ \E key \in DOMAIN market : Len(BidsOf(market[key])) = 2

\* C3: a successful accept_bid schedules the settlement of the bid with the
\* maximum price among the stored bids, for that bidder and that price, and
\* its transfers are exactly one refund of each other stored bid: none twice,
\* none to the winner.
C3_AcceptBidStep ==
  (last'.op = "accept_bid" /\ last'.status = "ok") =>
     LET key == ListingKey(last'.token_id)
         bids == BidsOf(market[key])
     IN  \E w \in DOMAIN bids :
            /\ \A i \in DOMAIN bids : bids[i].price <= bids[w].price
            /\ purchase_promises' =
                 BagAdd(purchase_promises,
                        PurchasePromise(bids[w].bidder_id,
                                        [market[key] EXCEPT !.bids = Some(<<>>)],
                                        bids[w].price))
            /\ \A i \in DOMAIN bids :
                  i # w => Count(transfers', <<bids[i].bidder_id, bids[i].price>>) = 1
            /\ \A e \in DOMAIN transfers' : e[1] # bids[w].bidder_id
            /\ BagSize(transfers') = Len(bids) - 1
C3_AcceptBid == [][C3_AcceptBidStep]_vars

\* accept_bid chose among two bids and refunded the other bidder.
C3_Witness ==
  /\ last.op = "accept_bid" /\ last.status = "ok"
  /\ BagSize(transfers) = 1
  /\ \E s \in DOMAIN purchase_promises : s.buyer_id = last.account /\ s.price = 200

\* C4: the record a settlement was scheduled from is absent from its store
\* when buy, accept_bid or the acceptance of an offer returns, and no listing
\* and no offer has more than one settlement scheduled from it since it was
\* created.
C4_OneSettlementPerRecord ==
  /\ \A key \in DOMAIN settlements : settlements[key] <= 1
  /\ (last.op \in {"buy", "accept_bid"} /\ last.status = "ok") =>
        ListingKey(last.token_id) \notin DOMAIN market
  /\ (last.op = "nft_on_approve_accept_offer" /\ last.status = "ok") =>
        make_triple(NFT, last.account, last.token_id) \notin DOMAIN offers

\* bob's offer was accepted and settled, then a purchase of the listing was
\* scheduled, and a later call was made to buy the same asset: one
\* settlement came from the offer and one from the listing.
C4_Witness ==
  /\ last.op = "buy" /\ last.status = "panic"
  /\ ListingKey("t1") \in DOMAIN settlements
  /\ settlements[ListingKey("t1")] = 1
  /\ PurchasePending("t1")
  /\ make_triple(NFT, "bob", "t1") \in DOMAIN settlements
  /\ settlements[make_triple(NFT, "bob", "t1")] = 1
  /\ make_triple(NFT, "bob", "t1") \notin DOMAIN offers

\* C5: the resolve of a settlement ends in one of the two terminal states,
\* paid or refunded, for every answer of the registry: it never aborts.
C5_ResolveEndsPaidOrRefunded ==
  IsResolve =>
     /\ last.status = "ok"
     /\ last.branch \in {"refund", "no_royalties", "payout"}

\* The transfers the valid-payout branch is to make for a payout that names
\* the seller: the seller's amount less the fee, the fee to the treasury,
\* every other amount as listed.
RECURSIVE ListedTransfers(_, _, _)
ListedTransfers(payout, seller, fee) ==
  IF DOMAIN payout = {} THEN NoTransfers
  ELSE LET r == CHOOSE x \in DOMAIN payout : TRUE
       IN  Plus(Transfer(r, IF r = seller THEN payout[r] - fee ELSE payout[r]),
                ListedTransfers(MapRemove(payout, r), seller, fee))

\* C6: a resolve given a valid payout that names the seller transfers the
\* seller's listed amount less the fee to the seller, the fee to the treasury
\* and every other listed amount to its recipient, also when the seller's
\* listed amount is smaller than the fee.
C6_PayoutBranchAmounts ==
  (IsResolve /\ IsSome(PayoutOption(last.amount, last.result))
             /\ last.caller \in DOMAIN Unwrap(PayoutOption(last.amount, last.result))) =>
     LET payout == Unwrap(PayoutOption(last.amount, last.result))
         fee == (last.amount * transaction_fee) \div 10000
     IN  /\ last.status = "ok"
         /\ transfers = Plus(ListedTransfers(payout, last.caller, fee),
                             IF fee > 0 THEN Transfer(treasury_id, fee) ELSE NoTransfers)

\* C7: a resolve of a successful transfer without a valid payout transfers
\* price - fee to the seller and fee to the treasury, fee being
\* price * transaction_fee / 10000 rounded down; the two add up to the price,
\* and the treasury gets no transfer only when the fee is 0.
C7_NoRoyaltiesSplit ==
  (IsResolve /\ last.result.ok /\ ~IsSome(PayoutOption(last.amount, last.result))) =>
     LET fee == (last.amount * transaction_fee) \div 10000
     IN  /\ transaction_fee < 10000
         /\ last.status = "ok"
         /\ transfers = Plus(Transfer(last.caller, last.amount - fee),
                             IF fee > 0 THEN Transfer(treasury_id, fee) ELSE NoTransfers)
         /\ BagTotal(transfers) = last.amount
         /\ BagSize(transfers) = IF fee > 0 THEN 2 ELSE 1

\* A price of 150 at 9999 basis points: the fee is rounded down to 149.
C7_Witness ==
  /\ IsResolve /\ last.result.ok /\ last.branch = "no_royalties"
  /\ last.amount = 150 /\ transaction_fee = 9999
  /\ Count(transfers, <<treasury_id, 149>>) = 1
  /\ Count(transfers, <<last.caller, 1>>) = 1

\* C8: every resolve that pays (a successful transfer, with or without a
\* valid payout, whoever the payout names) transfers the fee
\* price * transaction_fee / 10000 to the treasury when the fee is not 0.
C8_FeeOnEveryPaidSettlement ==
  (IsResolve /\ last.result.ok /\ last.status = "ok") =>
     LET fee == (last.amount * transaction_fee) \div 10000
     IN  fee > 0 => \E e \in DOMAIN transfers : e[1] = treasury_id /\ e[2] >= fee

\* C9: an add_offer of a buyer who has an offer for the asset leaves one offer
\* of that buyer for the asset, at the new price, and its transfers are one
\* refund of the prior price to that buyer.
C9_AddOfferStep ==
  LET key == make_triple(NFT, last'.caller, last'.token_id)
  IN  (last'.op = "add_offer" /\ last'.status = "ok" /\ key \in DOMAIN offers) =>
         /\ key \in DOMAIN offers'
         /\ offers'[key].price = last'.amount
         /\ Cardinality({k \in DOMAIN offers' :
                           /\ offers'[k].buyer_id = last'.caller
                           /\ offers'[k].token_id = last'.token_id}) = 1
         /\ DOMAIN offers' = DOMAIN offers
         /\ transfers' = Transfer(last'.caller, offers[key].price)
C9_AddOfferReplaces == [][C9_AddOfferStep]_vars

\* An offer of 500 was replaced by an offer of 1000.
C9_Witness ==
  /\ last.op = "add_offer" /\ last.status = "ok" /\ last.amount = 1000
  /\ transfers = Transfer(last.caller, 500)
  /\ offers[make_triple(NFT, last.caller, last.token_id)].price = 1000

\* C10: a resolve step leaves the listings, the offers and the reservation
\* index as they were.
C10_ResolveStep ==
  last'.op \in ResolveOps => UNCHANGED <<market, offers, by_owner_id>>
C10_ResolveWritesNoStore == [][C10_ResolveStep]_vars

\* A failed purchase was resolved while an offer stood, and a failed offer
\* while a listing stood; the record the settlement came from is not back.
C10_Witness ==
  /\ IsResolve /\ ~last.result.ok
  /\ \/ /\ last.op = "resolve_purchase"
        /\ offers # <<>>
        /\ ListingKey(last.token_id) \notin DOMAIN market
     \/ /\ last.op = "resolve_offer"
        /\ market # <<>>
        /\ make_triple(NFT, last.account, last.token_id) \notin DOMAIN offers

\* C11: the transfers of a resolve step are those the snapshot given at
\* schedule time and the registry's answer determine (with the fee rate and
\* the treasury of the time of the resolve), whatever the listings and the
\* offers stored when it runs, and whatever other settlement is pending.
C11_ResolveStep ==
  /\ last'.op = "resolve_purchase" =>
       \E s \in DOMAIN purchase_promises :
          /\ purchase_promises' = BagRemove(purchase_promises, s)
          /\ s.buyer_id = last'.account /\ s.price = last'.amount
          /\ transfers' = ResolvePurchase(s.buyer_id, s.market_data, s.price,
                                          last'.result, transaction_fee,
                                          treasury_id).transfers
  /\ last'.op = "resolve_offer" =>
       \E s \in DOMAIN offer_promises :
          /\ offer_promises' = BagRemove(offer_promises, s)
          /\ s.offer_data.buyer_id = last'.account
          /\ transfers' = ResolveOffer(s.seller_id, s.offer_data, s.token_id,
                                       last'.result, transaction_fee,
                                       treasury_id).transfers
C11_ResolveReadsSnapshotOnly == [][C11_ResolveStep]_vars

\* A purchase of the listing at 100 failed and was refunded 100 while a new
\* listing of the asset stood at 1000 and a second purchase of it was pending.
C11_Witness ==
  /\ last.op = "resolve_purchase" /\ ~last.result.ok
  /\ ListingKey(last.token_id) \in DOMAIN market
  /\ market[ListingKey(last.token_id)].price = 1000
  /\ transfers = Transfer(last.account, 100)
  /\ PurchasePending(last.token_id)

\* The keys of the listings an account owns and of the offers it made.
HeldKeys(account_id) ==
  {key \in DOMAIN market : market[key].owner_id = account_id}
    \cup {key \in DOMAIN offers : offers[key].buyer_id = account_id}

\* C12: in every reachable state the reservation index entry of every account
\* is the set of the keys of the listings it owns and of the offers it made,
\* and an account that holds none has no entry.
C12_IndexInSync ==
  \A a \in Callers \cup DOMAIN by_owner_id :
     IF a \in DOMAIN by_owner_id
     THEN by_owner_id[a] # {} /\ by_owner_id[a] = HeldKeys(a)
     ELSE HeldKeys(a) = {}

\* C13: in every reachable state a listing whose is_auction flag is absent or
\* false has no bids.
C13_FixedPriceHasNoBids ==
  \A key \in DOMAIN market :
     (market[key].is_auction = None \/ market[key].is_auction = Some(FALSE)) =>
        BidsOf(market[key]) = <<>>

\* The currency the contract holds in escrow: the prices of the stored bids
\* and offers and of the pending settlements.
RECURSIVE SumBids(_)
SumBids(bids) == IF bids = <<>> THEN 0 ELSE bids[1].price + SumBids(Tail(bids))
RECURSIVE SumFn(_)
SumFn(f) ==
  IF DOMAIN f = {} THEN 0
  ELSE LET k == CHOOSE x \in DOMAIN f : TRUE
       IN  f[k] + SumFn([x \in (DOMAIN f) \ {k} |-> f[x]])
Held ==
  SumFn([key \in DOMAIN market |-> SumBids(BidsOf(market[key]))])
    + SumFn([key \in DOMAIN offers |-> offers[key].price])
    + SumFn([s \in DOMAIN purchase_promises |-> s.price * purchase_promises[s]])
    + SumFn([s \in DOMAIN offer_promises |-> s.offer_data.price * offer_promises[s]])

\* C14: no escrowed currency is lost or duplicated.  Step by step: what the
\* contract held in bids, offers and pending settlements before a call, plus
\* the price or amount attached to an accepted buy, add_bid or add_offer,
\* equals what it holds after the call plus what the call transferred out;
\* a resolve that pays may leave up to 100 undistributed.  (Storage deposits
\* are no escrow.)
C14_EscrowStep ==
  LET attached == IF last'.status = "ok" /\ last'.op \in {"buy", "add_bid", "add_offer"}
                  THEN last'.amount ELSE 0
      before == Held + attached
      after == Held' + (IF last'.op = "storage_withdraw" THEN 0 ELSE BagTotal(transfers'))
  IN  IF last'.op \in ResolveOps /\ last'.result.ok
      THEN before - 100 <= after /\ after <= before
      ELSE after = before
C14_EscrowConserved == [][C14_EscrowStep]_vars

\* C15: a call that is rejected leaves the listings, the offers, the
\* reservation index, the storage balances, the configuration and the
\* pending settlements as they were and makes no transfer; so does an
\* add_offer whose storage check fails after the prior offer was removed.
C15_RejectedStep ==
  (last'.status = "panic" /\ last'.op \notin ResolveOps) =>
     /\ UNCHANGED <<market, offers, by_owner_id, storage_deposits>>
     /\ UNCHANGED <<owner_id, treasury_id, transaction_fee, approved_nft_contract_ids>>
     /\ UNCHANGED <<purchase_promises, offer_promises>>
     /\ transfers' = NoTransfers
C15_RejectedCallChangesNothing == [][C15_RejectedStep]_vars

\* bob's add_offer was rejected while his offer of 500 stands: the offer is
\* still stored, still indexed, and nothing was refunded.
C15_Witness ==
  /\ last = Panicked("add_offer")
  /\ transfers = NoTransfers
  /\ make_triple(NFT, "bob", "t1") \in DOMAIN offers
  /\ offers[make_triple(NFT, "bob", "t1")].price = 500
  /\ "bob" \in DOMAIN by_owner_id
  /\ make_triple(NFT, "bob", "t1") \in by_owner_id["bob"]

FeeInRange ==
  /\ transaction_fee < 10000
  /\ \A price \in SettlePrices : (price * transaction_fee) \div 10000 <= price
  /\ \A s \in DOMAIN purchase_promises : (s.price * transaction_fee) \div 10000 <= s.price
  /\ \A s \in DOMAIN offer_promises :
        (s.offer_data.price * transaction_fee) \div 10000 <= s.offer_data.price

FeeChangeStep ==
  transaction_fee' # transaction_fee =>
    /\ last' = Ok("set_transaction_fee", owner_id, "", "", transaction_fee')
    /\ transaction_fee' < 10000

\* C16: transaction_fee is 200 initially, changes only in an accepted owner
\* call of set_transaction_fee with a value below 10000, and is below 10000
\* in every reachable state, so that the fee of a settlement,
\* price * transaction_fee / 10000, is at most its price.
C16_FeeBelowDenominator ==
  /\ transaction_fee = 200
  /\ []FeeInRange
  /\ [][FeeChangeStep]_vars

\* The owner set the fee to 9999 and a later set_transaction_fee was rejected.
C16_Witness ==
  /\ last = Panicked("set_transaction_fee")
  /\ transaction_fee = 9999
  /\ purchase_promises # <<>>

\* C17: a settlement of price 1000 at a fee of 200 basis points whose
\* registry answers with the payout {seller: 950, royalty: 50} transfers 930
\* to the seller, 20 to the treasury and 50 to the royalty account: 1000 in
\* all.
C17_PayoutExample ==
  (/\ IsResolve /\ last.amount = 1000 /\ transaction_fee = 200
   /\ last.result.ok /\ last.result.shape \in {"bare", "wrapped"}
   /\ last.result.payout = (last.caller :> 950) @@ (ROYALTY :> 50)) =>
     /\ transfers = Plus(Plus(Transfer(last.caller, 930), Transfer(treasury_id, 20)),
                         Transfer(ROYALTY, 50))
     /\ BagTotal(transfers) = 1000
     /\ last.status = "ok"

\* The example's settlement was resolved, the treasury being its own account.
C17_Witness ==
  /\ IsResolve /\ last.amount = 1000 /\ transaction_fee = 200
  /\ last.result = Result(TRUE, "bare", ("alice" :> 950) @@ (ROYALTY :> 50))
  /\ transfers = (<<"alice", 930>> :> 1) @@ (<<TREASURY, 20>> :> 1) @@ (<<ROYALTY, 50>> :> 1)

\* The steps of the example: A = bob, B = carol, on the auction of t1.
C18_Step ==
  LET key == ContractAndTokenId(NFT, "t1")
      bids == IF key \in DOMAIN market THEN BidsOf(market[key]) ELSE <<>>
  IN  /\ (bids = <<Bid("bob", 100)>> /\ last' = Ok("add_bid", "bob", "t1", "bob", 150)) =>
            /\ transfers' = Transfer("bob", 100)
            /\ BidsOf(market'[key]) = <<Bid("bob", 150)>>
            /\ UNCHANGED promises
      /\ (bids = <<Bid("bob", 150)>> /\ last' = Ok("add_bid", "carol", "t1", "carol", 200)) =>
            /\ transfers' = NoTransfers
            /\ BidsOf(market'[key]) = <<Bid("bob", 150), Bid("carol", 200)>>
            /\ UNCHANGED promises
      /\ (bids = <<Bid("bob", 150), Bid("carol", 200)>> /\ last'.op = "accept_bid"
          /\ last'.status = "ok") =>
            /\ transfers' = Transfer("bob", 150)
            /\ last' = Ok("accept_bid", market[key].owner_id, "t1", "carol", 200)
            /\ \E s \in DOMAIN purchase_promises' :
                 /\ s.buyer_id = "carol" /\ s.price = 200
                 /\ purchase_promises' = BagAdd(purchase_promises, s)
            /\ UNCHANGED offer_promises
            /\ key \notin DOMAIN market'

\* C18: A bids 100, A bids 150, B bids 200, the owner accepts: A's second
\* add_bid refunds A 100 and leaves the single bid 150, B's add_bid refunds
\* nobody, and accept_bid refunds A 150 and nothing else, refunds B nothing,
\* and schedules one settlement for B with the amount 200.
C18_BidSequenceExample == [][C18_Step]_vars

\* The owner accepted with the bids [A: 150, B: 200]: A got 150 back and the
\* settlement for B at 200 is pending.
C18_Witness ==
  /\ last = Ok("accept_bid", "alice", "t1", "carol", 200)
  /\ transfers = Transfer("bob", 150)
  /\ \E s \in DOMAIN purchase_promises : s.buyer_id = "carol" /\ s.price = 200
  /\ ContractAndTokenId(NFT, "t1") \notin DOMAIN market

\* The settlement of a direct buy: it was scheduled at the listing's price on
\* a listing that is not an auction.
DirectBuy(s) ==
  /\ s.price = s.market_data.price
  /\ s.market_data.is_auction # Some(TRUE)

C19_Step ==
  /\ (last'.op = "buy" /\ last'.status = "ok") =>
        ContractAndTokenId(NFT, last'.token_id) \notin DOMAIN market'
  /\ \A s \in DOMAIN purchase_promises :
       (/\ last'.op = "resolve_purchase"
        /\ purchase_promises' = BagRemove(purchase_promises, s)
        /\ DirectBuy(s)
        /\ ~is_promise_success(last'.result)) =>
          /\ last'.status = "ok"
          /\ transfers' = Transfer(s.buyer_id, s.market_data.price)
          /\ UNCHANGED stores

\* C19: buy removes the listing from its key, and when the registry's
\* transfer of a direct buy at price p fails, the settlement transfers p to
\* the buyer and nothing to anyone else, and stores no listing.
C19_FailedBuyRefunds == [][C19_Step]_vars

\* A direct buy at 1000 was settled after a failed transfer: the buyer has
\* the 1000 back and the key holds no listing.
C19_Witness ==
  /\ last.op = "resolve_purchase" /\ last.status = "ok"
  /\ ~is_promise_success(last.result)
  /\ last.amount = 1000
  /\ transfers = Transfer(last.account, 1000)
  /\ ContractAndTokenId(NFT, last.token_id) \notin DOMAIN market

\* C20 as stated: an accepted bid is strictly greater than the listing's
\* starting price and strictly greater than the last bid.
C20_StrictStep ==
  (last'.op = "add_bid" /\ last'.status = "ok") =>
    LET market_data == market[ContractAndTokenId(NFT, last'.token_id)]
        bids == BidsOf(market_data)
    IN  /\ last'.amount > market_data.price
        /\ bids # <<>> => last'.amount > bids[Len(bids)].price
C20_StrictlyAboveStartingPrice == [][C20_StrictStep]_vars

C20_Step ==
  (last'.op = "add_bid" /\ last'.status = "ok") =>
    LET market_data == market[ContractAndTokenId(NFT, last'.token_id)]
        bids == BidsOf(market_data)
    IN  /\ last'.amount >= market_data.price
        /\ bids # <<>> => last'.amount > bids[Len(bids)].price

\* C20, amended: an accepted bid is at least the listing's starting price
\* and, when a prior bid exists, strictly greater than the last bid; a bid
\* below the starting price or equal to the last bid is rejected.
C20_AtLeastStartingPrice == [][C20_Step]_vars

\* A first bid equal to the starting price was accepted.
C20_Witness ==
  LET key == ContractAndTokenId(NFT, "t1")
  IN  /\ last.op = "add_bid" /\ last.status = "ok" /\ last.amount = 100
      /\ key \in DOMAIN market
      /\ market[key].price = 100
      /\ BidsOf(market[key]) = <<Bid(last.caller, 100)>>

\* The ledger time is inside the selling window of the listing.
InWindow(market_data) ==
  /\ IsSome(market_data.started_at) => now >= Unwrap(market_data.started_at)
  /\ IsSome(market_data.ended_at) => now <= Unwrap(market_data.ended_at)

\* What add_bid asks of a bid besides the time and the bidder not being the
\* owner: the deposit, the currency, the storage quota and the amount.
BidAdmissible(market_data, bidder_id, amount, deposit) ==
  LET bids == BidsOf(market_data)
  IN  /\ deposit >= amount
      /\ market_data.ft_token_id = NEAR
      /\ storage_balance_of(bidder_id) >=
           (get_supply_by_owner_id(bidder_id) + 1) * storage_minimum_balance
      /\ amount >= market_data.price
      /\ bids # <<>> => amount > bids[Len(bids)].price

C21_Guard ==
  \A key \in DOMAIN market, c \in Bidders, a \in TimedBids :
     LET market_data == market[key]
     IN  /\ (~InWindow(market_data) \/ c = market_data.owner_id) =>
               ~add_bid_ok(c, market_data.token_id, NEAR, a, a)
         /\ (InWindow(market_data) /\ c # market_data.owner_id
             /\ BidAdmissible(market_data, c, a, a)) =>
               add_bid_ok(c, market_data.token_id, NEAR, a, a)

C21_Step ==
  /\ (last'.op = "add_bid" /\ last'.status = "ok") =>
        LET market_data == market[ContractAndTokenId(NFT, last'.token_id)]
        IN  InWindow(market_data) /\ last'.caller # market_data.owner_id
  /\ (last'.op = "add_bid" /\ last'.status = "panic") =>
        UNCHANGED <<stores, promises>> /\ transfers' = NoTransfers

\* C21: add_bid is rejected, with the listing unchanged, when the ledger
\* time is before the listing's start time or after its end time or the
\* bidder is the listing owner; inside the window [started_at, ended_at] a
\* bid of another account that meets the other conditions is accepted.
C21_BidWindow == []C21_Guard /\ [][C21_Step]_vars

\* A bid was accepted at the end time of a listing with the window [1, 2]
\* that already held a bid placed at its start time or later.
C21_Witness ==
  LET key == ContractAndTokenId(NFT, "t1")
  IN  /\ last = Ok("add_bid", "carol", "t1", "carol", 150)
      /\ key \in DOMAIN market
      /\ market[key].started_at = Some(1) /\ market[key].ended_at = Some(2)
      /\ now = 2
      /\ BidsOf(market[key]) = <<Bid("bob", 100), Bid("carol", 150)>>

\* C22: in every reachable state every bid stored in a listing has a price
\* at least the listing's starting price, also after update_market_data
\* changed the price of a listing that holds bids.
C22_BidsAtLeastStartingPrice ==
  \A key \in DOMAIN market :
     LET bids == BidsOf(market[key])
     IN  \A i \in DOMAIN bids : bids[i].price >= market[key].price

\* The answer parses as a recipient -> amount map, bare or wrapped, whose
\* amounts sum to s with s <= price and price - s <= 100.
AcceptablePayout(price, result) ==
  /\ result.shape \in {"bare", "wrapped"}
  /\ SumFn(result.payout) <= price
  /\ price - SumFn(result.payout) <= 100

\* C23: a successful registry answer is resolved as a payout exactly when it
\* parses as a recipient -> amount map whose amounts sum to s with
\* s <= price and price - s <= 100; every other successful answer is
\* resolved as no royalties: price - fee to the seller and the fee, when it
\* is not zero, to the treasury.
C23_ValidPayoutOrNoRoyalties ==
  (IsResolve /\ is_promise_success(last.result)) =>
     LET price == last.amount
         treasury_fee == (price * transaction_fee) \div 10000
     IN  IF AcceptablePayout(price, last.result)
         THEN last.branch = "payout"
         ELSE /\ last.branch = "no_royalties"
              /\ last.status = "ok"
              /\ transfers = Plus(Transfer(last.caller, price - treasury_fee),
                                  IF treasury_fee > 0
                                  THEN Transfer(treasury_id, treasury_fee)
                                  ELSE NoTransfers)

\* A wrapped answer whose amounts sum to 50, exactly 100 below the price of
\* 150, was paid out as listed.
C23_Witness ==
  /\ IsResolve /\ is_promise_success(last.result)
  /\ last.amount = 150 /\ SumFn(last.result.payout) = 50
  /\ last.result.shape = "wrapped"
  /\ last.branch = "payout" /\ last.status = "ok"

\* The same mapping in the other shape.
Reshaped(result) ==
  Result(result.ok, IF result.shape = "bare" THEN "wrapped" ELSE "bare", result.payout)

\* C24: a successful answer that carries a mapping, bare or wrapped in the
\* envelope, is resolved with the transfers, the branch and the outcome the
\* same mapping has in the other shape, and the no-royalties branch is taken
\* only for an answer that is acceptable in neither shape.
C24_ShapesAgree ==
  (IsResolve /\ is_promise_success(last.result)) =>
     /\ last.result.shape \in {"bare", "wrapped"} =>
          LET o == Resolve(NEAR, last.account, last.amount, last.caller, last.amount,
                           Reshaped(last.result), transaction_fee, treasury_id)
          IN  /\ transfers = o.transfers
              /\ last.branch = o.branch
              /\ last.status = o.status
     /\ last.branch = "no_royalties" =>
          \/ last.result.shape \notin {"bare", "wrapped"}
          \/ /\ ~AcceptablePayout(last.amount, last.result)
             /\ ~AcceptablePayout(last.amount, Reshaped(last.result))

\* A mapping wrapped in the envelope was paid out as listed: 930 to the
\* seller, 20 to the treasury, 50 to the royalty account.
C24_Witness ==
  /\ IsResolve /\ last.status = "ok" /\ last.branch = "payout"
  /\ last.result = Result(TRUE, "wrapped", ("alice" :> 950) @@ (ROYALTY :> 50))
  /\ last.amount = 1000 /\ transaction_fee = 200 /\ treasury_id = TREASURY
  /\ transfers = (<<"alice", 930>> :> 1) @@ (<<TREASURY, 20>> :> 1) @@ (<<ROYALTY, 50>> :> 1)

C25_Guard ==
  \A t \in Tokens, c \in Users, f \in {None, Some(NEAR), Some("usdt")},
     p \in {None, Some(100), Some(1000)}, d \in BuyDeposits :
     buy_ok(c, t, f, p, d) =>
       LET key == ContractAndTokenId(NFT, t)
       IN  /\ key \in DOMAIN market
           /\ market[key].is_auction # Some(TRUE)
           /\ c # market[key].owner_id
           /\ d >= market[key].price
           /\ IsSome(f) => Unwrap(f) = market[key].ft_token_id
           /\ IsSome(p) => Unwrap(p) = market[key].price

C25_Step ==
  (last'.op = "buy" /\ last'.status = "ok") =>
    LET key == ContractAndTokenId(NFT, last'.token_id)
    IN  /\ key \in DOMAIN market
        /\ market[key].is_auction # Some(TRUE)
        /\ last'.caller # market[key].owner_id
        /\ last'.amount = market[key].price
        /\ key \notin DOMAIN market'
        /\ transfers' = RefundBids(BidsOf(market[key]))
        /\ purchase_promises' =
             BagAdd(purchase_promises,
                    PurchasePromise(last'.caller, market[key], market[key].price))
        /\ BagSize(purchase_promises') = BagSize(purchase_promises) + 1
        /\ UNCHANGED <<offers, offer_promises>>

\* C25: buy passes its checks only if the listing exists, is not flagged as
\* an auction, the buyer is not its owner, the deposit is at least its price
\* and the currency and price given, if any, are the listing's; an accepted
\* buy removes the listing, refunds the bids it held and schedules exactly
\* one settlement for the buyer at the listing price.
C25_Buy == []C25_Guard /\ [][C25_Step]_vars

\* bob bought a fixed-price listing on which carol had a bid: carol has the
\* bid back and bob's settlement is pending.
C25_Witness ==
  /\ last = Ok("buy", "bob", "t1", "bob", 100)
  /\ transfers = Transfer("carol", 100)
  /\ ContractAndTokenId(NFT, "t1") \notin DOMAIN market
  /\ \E s \in DOMAIN purchase_promises : s.buyer_id = "bob" /\ s.price = 100

C26_Guard ==
  \A b \in Buyers, t \in Tokens, p \in OfferPrices :
     LET key == make_triple(NFT, b, t)
     IN  (key \notin DOMAIN offers \/ offers[key].price # p) =>
            ~internal_accept_offer_ok(NFT, b, t, p)

C26_Step ==
  /\ (last'.op = "nft_on_approve_accept_offer" /\ last'.status = "ok") =>
       LET okey == make_triple(NFT, last'.account, last'.token_id)
           lkey == ContractAndTokenId(NFT, last'.token_id)
       IN  /\ okey \in DOMAIN offers
           /\ offers[okey].price = last'.amount
           /\ okey \notin DOMAIN offers'
           /\ lkey \notin DOMAIN market'
           /\ transfers' = IF lkey \in DOMAIN market
                           THEN RefundBids(BidsOf(market[lkey])) ELSE NoTransfers
           /\ offer_promises' =
                BagAdd(offer_promises,
                       OfferPromise(last'.caller, offers[okey], last'.token_id))
           /\ BagSize(offer_promises') = BagSize(offer_promises) + 1
           /\ UNCHANGED purchase_promises
  /\ last' = Panicked("nft_on_approve_accept_offer") =>
       UNCHANGED <<stores, storage_deposits, promises>> /\ transfers' = NoTransfers

\* C26: an accepted offer leaves neither the offer nor a listing of the
\* asset stored, refunds every bid of the deleted listing and schedules
\* exactly one settlement, at the offer's price; accepting an offer that
\* does not exist or at another price than recorded is rejected and changes
\* nothing.
C26_AcceptOffer == []C26_Guard /\ [][C26_Step]_vars

\* alice accepted bob's offer of 500 while her listing held carol's bid of
\* 100: carol has the bid back, listing and offer are gone, bob's settlement
\* is pending.
C26_Witness ==
  /\ last = Ok("nft_on_approve_accept_offer", "alice", "t1", "bob", 500)
  /\ transfers = Transfer("carol", 100)
  /\ ContractAndTokenId(NFT, "t1") \notin DOMAIN market
  /\ make_triple(NFT, "bob", "t1") \notin DOMAIN offers
  /\ \E s \in DOMAIN offer_promises :
       s.offer_data.buyer_id = "bob" /\ s.offer_data.price = 500

C27_Step ==
  (last'.op = "cancel_bid" /\ last'.status = "ok") =>
    LET key == ContractAndTokenId(NFT, last'.token_id)
        account_id == last'.account
        bids == BidsOf(market[key])
        mine == {i \in DOMAIN bids : bids[i].bidder_id = account_id}
    IN  /\ mine # {} => last'.caller \in {account_id, owner_id}
        /\ market' = [market EXCEPT ![key].bids =
                        Some(SelectSeq(bids, LAMBDA bid : bid.bidder_id # account_id))]
        /\ \A i \in mine : Count(transfers', <<account_id, bids[i].price>>) =
                             Cardinality({j \in mine : bids[j].price = bids[i].price})
        /\ BagSize(transfers') = Cardinality(mine)
        /\ UNCHANGED <<offers, by_owner_id, storage_deposits, promises>>

\* C27: cancel_bid for a bidder who has a bid on the listing is accepted only
\* from that bidder or the contract owner; it removes the bids of that bidder,
\* transfers the price of each to that bidder once and nothing else, and
\* leaves the other bids as they were, in their order.
C27_CancelBid == [][C27_Step]_vars

\* The contract owner cancelled bob's bid of 100 on a listing that also held
\* carol's bid of 150: bob has the 100 back and the list keeps carol's bid.
C27_Witness ==
  LET key == ContractAndTokenId(NFT, "t1")
  IN  /\ last = Ok("cancel_bid", OWNER, "t1", "bob", 0)
      /\ transfers = Transfer("bob", 100)
      /\ key \in DOMAIN market
      /\ BidsOf(market[key]) = <<Bid("carol", 150)>>

C28_Step ==
  (last'.op = "delete_market_data" /\ last'.status = "ok") =>
    LET key == ContractAndTokenId(NFT, last'.token_id)
        bids == BidsOf(market[key])
        owner == market[key].owner_id
    IN  /\ key \in DOMAIN market
        /\ last'.caller \in {owner, owner_id}
        /\ key \notin DOMAIN market'
        /\ \A i \in DOMAIN bids :
             Count(transfers', <<bids[i].bidder_id, bids[i].price>>) =
               Cardinality({j \in DOMAIN bids : bids[j] = bids[i]})
        /\ BagSize(transfers') = Len(bids)
        /\ owner \in DOMAIN by_owner_id' => key \notin by_owner_id'[owner]
        /\ \A a \in (DOMAIN by_owner_id \cup DOMAIN by_owner_id') \ {owner} :
             /\ a \in DOMAIN by_owner_id /\ a \in DOMAIN by_owner_id'
             /\ by_owner_id'[a] = by_owner_id[a]
        /\ UNCHANGED <<offers, storage_deposits, promises>>

\* C28: delete_market_data is accepted only from the listing owner or the
\* contract owner; it removes the listing, transfers to every bidder of the
\* listing the price of its bid once and nothing else, and removes the
\* listing key from the listing owner's reservation index.
C28_DeleteMarketData == [][C28_Step]_vars

\* The contract owner deleted alice's listing, which held the bids of bob
\* (100) and carol (150): both are refunded and alice has no index entry.
C28_Witness ==
  /\ last = Ok("delete_market_data", OWNER, "t1", OWNER, 0)
  /\ transfers = Plus(Transfer("bob", 100), Transfer("carol", 150))
  /\ ContractAndTokenId(NFT, "t1") \notin DOMAIN market
  /\ "alice" \notin DOMAIN by_owner_id

C29_Step ==
  /\ (last'.op = "delete_offer" /\ last'.status = "ok") =>
       LET caller == last'.caller
           key == make_triple(NFT, caller, last'.token_id)
       IN  /\ key \in DOMAIN offers
           /\ offers[key].buyer_id = caller
           /\ offers' = MapRemove(offers, key)
           /\ \A k \in DOMAIN offers : offers[k].buyer_id # caller => k \in DOMAIN offers'
           /\ transfers' = Transfer(caller, offers[key].price)
           /\ caller \in DOMAIN by_owner_id' => key \notin by_owner_id'[caller]
           /\ \A a \in (DOMAIN by_owner_id \cup DOMAIN by_owner_id') \ {caller} :
                /\ a \in DOMAIN by_owner_id /\ a \in DOMAIN by_owner_id'
                /\ by_owner_id'[a] = by_owner_id[a]
           /\ UNCHANGED <<market, storage_deposits, promises>>
  /\ last' = Panicked("delete_offer") =>
       UNCHANGED <<stores, storage_deposits, promises>> /\ transfers' = NoTransfers

\* C29: an accepted delete_offer removes the caller's own offer for the
\* asset and no other, transfers its price to the caller once and nothing
\* else, and removes its key from the caller's reservation index; a
\* rejected one removes and refunds nothing.
C29_DeleteOffer == [][C29_Step]_vars

\* bob deleted the offer of 500 bob had made: bob has the 500 back, and no
\* offer and no index entry of bob is left.
C29_Witness ==
  /\ last = Ok("delete_offer", "bob", "t1", "bob", 500)
  /\ transfers = Transfer("bob", 500)
  /\ make_triple(NFT, "bob", "t1") \notin DOMAIN offers
  /\ "bob" \notin DOMAIN by_owner_id

C30_Guard ==
  \A key \in DOMAIN market, c \in Bidders :
     accept_bid_ok(c, market[key].token_id, 1) <=>
       (c = market[key].owner_id /\ BidsOf(market[key]) # <<>>)

C30_Step ==
  (last'.op = "accept_bid" /\ last'.status = "ok") =>
    LET key == ContractAndTokenId(NFT, last'.token_id)
    IN  /\ last'.caller = market[key].owner_id
        /\ BidsOf(market[key]) # <<>>
        /\ \E s \in DOMAIN purchase_promises' :
             purchase_promises' = BagAdd(purchase_promises, s)

\* C30: at every ledger time, accept_bid with one yocto passes its checks
\* exactly when the caller is the listing owner and the bid list is not
\* empty; the selling window plays no part.
C30_AcceptBidNotTimed == []C30_Guard /\ [][C30_Step]_vars

\* The owner accepted a bid at time 3, after the end of the window [1, 2].
C30_Witness ==
  /\ last.op = "accept_bid" /\ last.status = "ok" /\ last.caller = "alice"
  /\ now = 3
  /\ \E s \in DOMAIN purchase_promises :
       /\ s.market_data.started_at = Some(1)
       /\ s.market_data.ended_at = Some(2)
       /\ s.buyer_id = last.account /\ s.price = last.amount

\* A listing holds bids only from its start time on.
BidsOnlyAfterStart ==
  \A key \in DOMAIN market :
     (BidsOf(market[key]) # <<>> /\ IsSome(market[key].started_at)) =>
        now >= Unwrap(market[key].started_at)

\* C31: whatever the registry answers, the transfers a settlement makes when
\* it resolves (the refund, or the seller's, the royalty recipients' and the
\* treasury's parts) sum to at most the amount escrowed for it: the listing
\* price paid by the buyer, the winning bid, or the offer's price.
C31_ResolveWithinEscrow ==
  IsResolve => BagTotal(transfers) <= last.amount

\* C32: a settlement is split with the fee rate and the treasury in force
\* when it resolves: the fee is price * transaction_fee / 10000 of the
\* current transaction_fee and goes to the current treasury_id, whatever
\* they were when the settlement was scheduled.
C32_FeeAtResolve ==
  (IsResolve /\ last.status = "ok" /\ last.branch \in {"no_royalties", "payout"}) =>
     LET price == last.amount
         seller == last.caller
         payout == last.result.payout
         treasury_fee == (price * transaction_fee) \div 10000
         fee_transfer == IF treasury_fee > 0 THEN Transfer(treasury_id, treasury_fee)
                         ELSE NoTransfers
         royalty == IF ROYALTY \in DOMAIN payout THEN Transfer(ROYALTY, payout[ROYALTY])
                    ELSE NoTransfers
     IN  IF last.branch = "no_royalties"
         THEN transfers = Plus(Transfer(seller, price - treasury_fee), fee_transfer)
         ELSE IF seller \in DOMAIN payout
              THEN transfers = Plus(Plus(Transfer(seller, payout[seller] - treasury_fee),
                                         fee_transfer), royalty)
              ELSE transfers = royalty

\* A settlement of 1000 scheduled at the fee 200 with the treasury
\* "treasury" resolved after the owner set the fee to 5000 and the treasury
\* to alice: the fee of 500 went to alice.
C32_Witness ==
  /\ IsResolve /\ last.status = "ok" /\ last.branch = "no_royalties"
  /\ last.amount = 1000
  /\ transaction_fee = 5000 /\ treasury_id = "alice"
  /\ Count(transfers, <<"alice", 500>>) = 2
  /\ Count(transfers, <<TREASURY, 20>>) = 0

\* The storage balance of every account covers its reservations.
StorageCovered ==
  \A a \in Callers \cup DOMAIN by_owner_id \cup DOMAIN storage_deposits :
     storage_balance_of(a) >= get_supply_by_owner_id(a) * storage_minimum_balance

WithdrawStep ==
  (last'.op = "storage_withdraw" /\ last'.status = "ok") =>
    LET a == last'.caller
        required == get_supply_by_owner_id(a) * storage_minimum_balance
    IN  /\ storage_balance_of(a) >= required
        /\ transfers' = IF storage_balance_of(a) - required > 0
                        THEN Transfer(a, storage_balance_of(a) - required)
                        ELSE NoTransfers
        /\ IF required > 0
           THEN a \in DOMAIN storage_deposits' /\ storage_deposits'[a] = required
           ELSE a \notin DOMAIN storage_deposits'
        /\ UNCHANGED <<stores, promises>>

\* C33: in every reachable state the storage balance of each account is at
\* least its reservation count times the unit storage cost, so that
\* storage_withdraw never underflows: it transfers balance - count * unit to
\* the caller and leaves count * unit recorded, and no entry when the count
\* is 0.
C33_StorageCoversReservations == []StorageCovered /\ [][WithdrawStep]_vars

\* bob holds one reservation and withdrew: one unit stays recorded and the
\* rest of his two units was transferred to him.
C33_Witness ==
  /\ last = Ok("storage_withdraw", "bob", "", "bob", STORAGE_ADD_MARKET_DATA)
  /\ get_supply_by_owner_id("bob") = 1
  /\ storage_deposits["bob"] = STORAGE_ADD_MARKET_DATA
  /\ transfers = Transfer("bob", STORAGE_ADD_MARKET_DATA)

====
